---------------------------- MODULE Spec2Model ----------------------------
(***************************************************************************)
(* Webhook authentication of the Proxy Protocol Node SDK.                  *)
(*                                                                         *)
(* Three variants of the verifier live in the repository:                  *)
(*   verifySignature        src/src/webhook_auth.ts                        *)
(*   verifyProxySignature   src/src/security.ts   (throws on a bad time)   *)
(*   verifyProxySignature   src/src/index.ts      (raw string comparison)  *)
(*                                                                         *)
(* Strings are sequences of one-character strings, Buffers are sequences   *)
(* of byte values.  The clock is in whole seconds, as the code reads it    *)
(* (Math.floor(Date.now() / 1000)).                                        *)
(*                                                                         *)
(* HMAC-SHA256 is a library primitive; it is modelled by a keyed           *)
(* polynomial hash of DigestBytes bytes (instead of 32) in which every     *)
(* single-byte change of the message changes the digest.  Timestamps stay  *)
(* far below 2^53, so parseInt's loss of precision is outside the model.   *)
(***************************************************************************)
EXTENDS Integers, Sequences, FiniteSets, TLC

\* ------------------------------------------------------------------ bounds
\* Longest request body the sender and the attacker produce.
MaxBodyLen == 1
\* How many times the clock advances.
MaxTicks == 1
\* The clock reading (unix seconds) of the initial state.
Epoch == 1000
\* Width in bytes of the modelled MAC digest.
DigestBytes == 2

\* ------------------------------------------------------- program constants
\* toleranceSeconds: number = 300
DefaultTolerance == 300
\* const tolerance = 300; // 5 minutes
SecurityTolerance == 300
\* if (Math.abs(now - eventTime) > 300) return false;
IndexTolerance == 300

\* -------------------------------------------------------------- characters
Digits == <<"0", "1", "2", "3", "4", "5", "6", "7", "8", "9">>
HexLower == Digits \o <<"a", "b", "c", "d", "e", "f">>
HexUpper == Digits \o <<"A", "B", "C", "D", "E", "F">>

Range(s) == {s[i] : i \in 1..Len(s)}
IndexOf(s, c) == CHOOSE i \in 1..Len(s) : s[i] = c

IsDigit(c) == c \in Range(Digits)
DigitVal(c) == IndexOf(Digits, c) - 1
IsHex(c) == c \in Range(HexLower) \cup Range(HexUpper)
\* unhex() of one character: both letter cases decode to the same nibble.
HexVal(c) == IF c \in Range(HexLower) THEN IndexOf(HexLower, c) - 1
             ELSE IndexOf(HexUpper, c) - 1
\* StrWhiteSpaceChar, as far as the model's alphabet has any.
IsSpace(c) == c = " "

\* The other characters of the model's alphabet, with their ASCII codes.
Others == <<" ", "+", "-", ".", "g", "m", "n", "o", "r", "t", "u", "x", "z">>
OtherCodes == <<32, 43, 45, 46, 103, 109, 110, 111, 114, 116, 117, 120, 122>>

\* The UTF-8 byte of an (ASCII) character.
CharCode(c) == IF IsDigit(c) THEN 48 + DigitVal(c)
               ELSE IF c \in Range(HexLower) THEN 87 + HexVal(c)
               ELSE IF c \in Range(HexUpper) THEN 55 + HexVal(c)
               ELSE OtherCodes[IndexOf(Others, c)]

\* Buffer.from(str, 'utf-8')
Utf8(s) == [i \in 1..Len(s) |-> CharCode(s[i])]

Abs(x) == IF x < 0 THEN -x ELSE x

\* ---------------------------------------------------------------- parseInt
\* parseInt(string, 10): leading white space is skipped, one sign is read,
\* then the longest run of decimal digits; what follows is ignored.  No
\* digit at that place gives NaN.
RECURSIVE SkipSpace(_)
SkipSpace(s) == IF s # <<>> /\ IsSpace(Head(s)) THEN SkipSpace(Tail(s)) ELSE s

RECURSIVE DigitRun(_)
DigitRun(s) == IF s # <<>> /\ IsDigit(Head(s)) THEN <<Head(s)>> \o DigitRun(Tail(s))
               ELSE <<>>

RECURSIVE DecValue(_)
DecValue(d) == IF d = <<>> THEN 0
               ELSE 10 * DecValue(SubSeq(d, 1, Len(d) - 1)) + DigitVal(d[Len(d)])

NaN == [nan |-> TRUE, val |-> 0]

ParseInt(string) ==
    LET trimmed == SkipSpace(string)
        signed == trimmed # <<>> /\ Head(trimmed) \in {"+", "-"}
        sign == IF signed /\ Head(trimmed) = "-" THEN -1 ELSE 1
        rest == IF signed THEN Tail(trimmed) ELSE trimmed
        run == DigitRun(rest)
    IN  IF run = <<>> THEN NaN
        ELSE [nan |-> FALSE, val |-> sign * DecValue(run)]

\* --------------------------------------------------------------- hex, HMAC
\* digest('hex'): two lowercase hex characters per byte.
HexEncode(bytes) ==
    [i \in 1..(2 * Len(bytes)) |->
        LET b == bytes[(i + 1) \div 2]
        IN  HexLower[(IF i % 2 = 1 THEN b \div 16 ELSE b % 16) + 1]]

\* Number of leading character pairs of s that are both hex digits.
RECURSIVE HexPairs(_)
HexPairs(s) == IF Len(s) >= 2 /\ IsHex(s[1]) /\ IsHex(s[2])
               THEN 1 + HexPairs(SubSeq(s, 3, Len(s)))
               ELSE 0

\* Buffer.from(str, 'hex'): decoding stops at the first pair that is not two
\* hex digits, and a trailing single character is dropped.
HexDecode(s) ==
    [i \in 1..HexPairs(s) |-> 16 * HexVal(s[2 * i - 1]) + HexVal(s[2 * i])]

\* The hash state after the first n bytes of b.
RECURSIVE HashPrefix(_, _)
HashPrefix(b, n) ==
    IF n = 0 THEN 7
    ELSE (HashPrefix(b, n - 1) * 33 + b[n] + 1) % (256 ^ DigestBytes)

\* createHmac('sha256', secret).update(payload).digest(): the digest bytes.
Hmac(secret, payload) ==
    LET key == Utf8(secret)
        msg == <<Len(key)>> \o key \o payload
        h == HashPrefix(msg, Len(msg))
    IN  [i \in 1..DigestBytes |-> (h \div (256 ^ (DigestBytes - i))) % 256]

\* A comparison that looks at the first byte only.
TimingSafeEqualFirstByte(a, b) ==
    IF Len(a) # Len(b) THEN "RangeError"
    ELSE IF a = <<>> \/ a[1] = b[1] THEN "true" ELSE "false"

\* crypto.timingSafeEqual(a, b): a RangeError when the lengths differ.
TimingSafeEqual(a, b) ==
    IF Len(a) # Len(b) THEN "RangeError" ELSE IF a = b THEN "true" ELSE "false"

\* ------------------------------------------------------------- the verifiers
\* A failure reported as a returned false instead of a thrown Error.
ThrowAsReturn(msg) == [kind |-> "return", value |-> FALSE, error |-> ""]

\* How a call ends: a returned boolean, or a thrown Error with its message.
Return(v) == [kind |-> "return", value |-> v, error |-> ""]
Throw(msg) == [kind |-> "throw", value |-> FALSE, error |-> msg]

\* A call's end together with the steps it executed, in order.
Ended(out, steps) == [out |-> out, steps |-> steps]
Compared(cmp, steps) ==
    Ended(IF cmp = "RangeError" THEN Throw("RangeError") ELSE Return(cmp = "true"),
          steps \o <<"timingSafeEqual">>)

\* String(n) of a natural number: what a sender puts in the timestamp header.
RECURSIVE Dec(_)
Dec(n) == IF n < 10 THEN <<Digits[n + 1]>> ELSE Dec(n \div 10) \o <<Digits[(n % 10) + 1]>>

\* A payload built from the parsed integer, formatted again.
PayloadBufferReformatted(timestamp, rawBody) ==
    Utf8(Dec(ParseInt(timestamp).val) \o <<".">>) \o Utf8(rawBody)

\* A payload built without the separator.
PayloadBufferNoSeparator(timestamp, rawBody) == Utf8(timestamp) \o Utf8(rawBody)

\* webhook_auth.ts: Buffer.concat([Buffer.from(`${timestamp}.`), bodyBuffer])
PayloadBuffer(timestamp, rawBody) == Utf8(timestamp \o <<".">>) \o Utf8(rawBody)

\* security.ts, index.ts: `${timestamp}.${rawBody}`, hashed as UTF-8
PayloadString(timestamp, rawBody) == Utf8(timestamp \o <<".">> \o rawBody)

\* A window test without Math.abs: only timestamps from the future fail it.
OutsideWindowFutureOnly(clock, eventTime, tolerance) == eventTime - clock > tolerance

\* A window test that excludes the edge of the window.
OutsideWindowExclusive(clock, eventTime, tolerance) == Abs(clock - eventTime) >= tolerance

\* Math.abs(now - eventTime) > tolerance: the request is too old or from the
\* future.
OutsideWindow(clock, eventTime, tolerance) == Abs(clock - eventTime) > tolerance

\* A verifier that hands the buffers to timingSafeEqual without comparing
\* their lengths first.
VerifySignatureNoLengthCheck(rawBody, signature, timestamp, secret, toleranceArg, clock) ==
    LET toleranceSeconds ==
            IF toleranceArg = <<>> THEN DefaultTolerance ELSE toleranceArg[1]
        eventTime == ParseInt(timestamp)
    IN  IF eventTime.nan THEN Ended(Return(FALSE), <<"parseInt">>)
        ELSE IF OutsideWindow(clock, eventTime.val, toleranceSeconds)
        THEN Ended(Return(FALSE), <<"parseInt", "window">>)
        ELSE LET payload == PayloadBuffer(timestamp, rawBody)
                 computedSignature == HexEncode(Hmac(secret, payload))
                 signatureBuffer == HexDecode(signature)
                 computedBuffer == HexDecode(computedSignature)
                 steps == <<"parseInt", "window", "hmac", "decode">>
             IN  Compared(TimingSafeEqual(computedBuffer, signatureBuffer), steps)

\* A verifier that hashes the payload before it looks at the timestamp.
VerifySignatureHmacFirst(rawBody, signature, timestamp, secret, toleranceArg, clock) ==
    LET toleranceSeconds ==
            IF toleranceArg = <<>> THEN DefaultTolerance ELSE toleranceArg[1]
        computedSignature == HexEncode(Hmac(secret, PayloadBuffer(timestamp, rawBody)))
        eventTime == ParseInt(timestamp)
    IN  IF eventTime.nan THEN Ended(Return(FALSE), <<"hmac", "parseInt">>)
        ELSE IF OutsideWindow(clock, eventTime.val, toleranceSeconds)
        THEN Ended(Return(FALSE), <<"hmac", "parseInt", "window">>)
        ELSE LET signatureBuffer == HexDecode(signature)
                 computedBuffer == HexDecode(computedSignature)
                 steps == <<"hmac", "parseInt", "window", "decode">>
             IN  IF Len(signatureBuffer) # Len(computedBuffer)
                 THEN Ended(Return(FALSE), steps)
                 ELSE Compared(TimingSafeEqual(computedBuffer, signatureBuffer), steps)

\* verifySignature of webhook_auth.ts.  toleranceArg is <<>> when the caller
\* omits the parameter and <<t>> when the caller passes t; clock is
\* Math.floor(Date.now() / 1000).
VerifySignature(rawBody, signature, timestamp, secret, toleranceArg, clock) ==
    LET toleranceSeconds ==
            IF toleranceArg = <<>> THEN DefaultTolerance ELSE toleranceArg[1]
        eventTime == ParseInt(timestamp)
    IN  IF eventTime.nan THEN Ended(Return(FALSE), <<"parseInt">>)
        ELSE IF OutsideWindow(clock, eventTime.val, toleranceSeconds)
        THEN Ended(Return(FALSE), <<"parseInt", "window">>)
        ELSE LET payload == PayloadBuffer(timestamp, rawBody)
                 computedSignature == HexEncode(Hmac(secret, payload))
                 signatureBuffer == HexDecode(signature)
                 computedBuffer == HexDecode(computedSignature)
                 steps == <<"parseInt", "window", "hmac", "decode">>
             IN  IF Len(signatureBuffer) # Len(computedBuffer)
                 THEN Ended(Return(FALSE), steps)
                 ELSE Compared(TimingSafeEqual(computedBuffer, signatureBuffer), steps)

\* verifyProxySignature of security.ts: the tolerance is fixed and a bad
\* timestamp throws.
SecurityVerifyProxySignature(rawBody, signature, timestamp, secret, clock) ==
    LET eventTime == ParseInt(timestamp)
    IN  IF eventTime.nan
        THEN Ended(Throw("PX_SECURITY_ERR: Invalid or missing timestamp header."),
                   <<"parseInt">>)
        ELSE IF OutsideWindow(clock, eventTime.val, SecurityTolerance)
        THEN Ended(Throw("PX_SECURITY_ERR: Request timestamp outside 5m window. Potential replay attack."),
                   <<"parseInt", "window">>)
        ELSE LET payload == PayloadString(timestamp, rawBody)
                 expectedSignature == HexEncode(Hmac(secret, payload))
                 signatureBuffer == HexDecode(signature)
                 expectedBuffer == HexDecode(expectedSignature)
                 steps == <<"parseInt", "window", "hmac", "decode">>
             IN  IF Len(signatureBuffer) # Len(expectedBuffer)
                 THEN Ended(Return(FALSE), steps)
                 ELSE Compared(TimingSafeEqual(signatureBuffer, expectedBuffer), steps)

\* verifyProxySignature of index.ts: the signature string and the hex digest
\* are compared as UTF-8 bytes, without hex decoding.
IndexVerifyProxySignature(rawBody, signature, timestamp, secret, clock) ==
    LET eventTime == ParseInt(timestamp)
    IN  IF eventTime.nan THEN Ended(Return(FALSE), <<"parseInt">>)
        ELSE IF OutsideWindow(clock, eventTime.val, IndexTolerance)
        THEN Ended(Return(FALSE), <<"parseInt", "window">>)
        ELSE LET payload == PayloadString(timestamp, rawBody)
                 digest == HexEncode(Hmac(secret, payload))
                 signatureBuffer == Utf8(signature)
                 digestBuffer == Utf8(digest)
                 steps == <<"parseInt", "window", "hmac", "decode">>
             IN  IF Len(signatureBuffer) # Len(digestBuffer)
                 THEN Ended(Return(FALSE), steps)
                 ELSE Compared(TimingSafeEqual(signatureBuffer, digestBuffer), steps)

\* ------------------------------------------------------------------ inputs
\* The sender's side of the wire contract: lowercase hex of
\* HMAC-SHA256(secret, "{timestamp}.{raw_body}").
SenderSign(secret, timestamp, body) ==
    HexEncode(Hmac(secret, Utf8(timestamp \o <<".">> \o body)))

RECURSIVE SeqsUpTo(_, _)
SeqsUpTo(alphabet, n) ==
    IF n = 0 THEN {<<>>}
    ELSE LET shorter == SeqsUpTo(alphabet, n - 1)
         IN  shorter \cup {t \o <<c>> : t \in shorter, c \in alphabet}

Secrets == {<<"a", "b">>, <<"b", "a">>}
Bodies == SeqsUpTo({"a", "."}, MaxBodyLen)

\* Seconds by which the clock advances in one step: just past the window.
TickSeconds == DefaultTolerance + 1
ClockValues == {Epoch + k * TickSeconds : k \in 0..MaxTicks}

\* Claimed send times, as offsets from Epoch: the instant itself, both edges
\* of a 1 s and of the 300 s window, one second beyond each edge, and one
\* that is 600 s old after a step of the clock.
Offsets == {-301, -300, -299, -2, -1, 0, 1, 2, 300, 301}
PlainTimestamps == {Dec(Epoch + d) : d \in Offsets}
NotANumber == <<"n", "o", "t", "-", "a", "-", "n", "u", "m", "b", "e", "r">>
\* Header values that are not a plain decimal integer.
OddTimestamps ==
    {<<>>, NotANumber, <<"x">> \o Dec(Epoch), <<"-">> \o Dec(Epoch),
     Dec(Epoch) \o <<"x">>, Dec(Epoch) \o <<".">>, <<" ">> \o Dec(Epoch),
     <<"+">> \o Dec(Epoch), <<"0">> \o Dec(Epoch)}
Timestamps == PlainTimestamps \cup OddTimestamps

IsPlainDecimal(t) == t # <<>> /\ \A i \in 1..Len(t) : IsDigit(t[i])

ToUpper(c) == IF c \in Range(HexLower) THEN HexUpper[IndexOf(HexLower, c)] ELSE c
UpperCase(s) == [i \in 1..Len(s) |-> ToUpper(s[i])]
Substitute(s, i, c) == [j \in 1..Len(s) |-> IF j = i THEN c ELSE s[j]]
\* A hex digit other than c.
OtherHex(c) == HexLower[((HexVal(c) + 1) % 16) + 1]

\* Signature header values presented with (timestamp, body): the sender's
\* signature under either secret, and what an attacker derives from it.
Signatures(secret, timestamp, body) ==
    LET good == SenderSign(secret, timestamp, body)
    IN  {good, UpperCase(good), SubSeq(good, 1, Len(good) - 1),
         good \o <<"0">>, good \o <<"z", "z">>,
         Substitute(good, 1, OtherHex(good[1])),
         Substitute(good, Len(good), OtherHex(good[Len(good)])),
         Substitute(good, Len(good), "g"), <<>>}
        \cup {SenderSign(k, timestamp, body) : k \in Secrets}

ToleranceArgs == {<<>>, <<1>>}

\* -------------------------------------------------------------------- state
VARIABLES
    now,      \* the wall clock, in unix seconds
    call,     \* the latest verification call: function, arguments, clock read
    outcome,  \* how that call ended
    steps,    \* the steps that call executed, in order
    replay,   \* TRUE when that call re-presented an accepted request
    ms,       \* Date.now() as the browser client reads it, in milliseconds
    task,     \* the status of the remote task that getTask reports
    poll,     \* the pollUntilComplete call: arguments, locals, position, result
    raised,   \* the latest mapError call and the class it returned
    frames,   \* per concurrent verifySignature call: position, arguments, locals
    reward,   \* the latest calculateRewards call: arguments and what it returned
    sim,      \* a ProxyClient: version, test mode, mock store, calls in flight
    sandbox,  \* the sandbox server's taskStore
    last,     \* the latest client or sandbox call and how it ended
    tpm       \* the TPMBridge.sign call: environment, position, temp files, result

webhookVars == <<now, call, outcome, steps, replay>>
pollVars == <<ms, task, poll>>
vars == <<webhookVars, pollVars, raised, frames, reward, sim, sandbox, last, tpm>>
\* What the webhook handler, the polling client, mapError and the others
\* leave alone.
notWebhook == <<pollVars, raised, frames, reward, sim, sandbox, last, tpm>>
notPoll == <<webhookVars, raised, frames, reward, sim, sandbox, last, tpm>>
notErrors == <<webhookVars, pollVars, frames, reward, sim, sandbox, last, tpm>>
notFrames == <<webhookVars, pollVars, raised, reward, sim, sandbox, last, tpm>>
notReward == <<webhookVars, pollVars, raised, frames, sim, sandbox, last, tpm>>
\* The simulator shares the millisecond clock with the polling client.
notSim == <<webhookVars, task, poll, raised, frames, reward, tpm>>
notTpm == <<webhookVars, pollVars, raised, frames, reward, sim, sandbox, last>>

NoCall == [fn |-> "none", rawBody |-> <<>>, signature |-> <<>>, timestamp |-> <<>>,
           secret |-> <<>>, tolerance |-> <<>>, at |-> 0]
NoOutcome == [kind |-> "none", value |-> FALSE, error |-> ""]

\* The verifier a call names, run on the call's arguments.
Run(c) ==
    IF c.fn = "verifySignature"
    THEN VerifySignature(c.rawBody, c.signature, c.timestamp, c.secret, c.tolerance, c.at)
    ELSE IF c.fn = "security.verifyProxySignature"
    THEN SecurityVerifyProxySignature(c.rawBody, c.signature, c.timestamp, c.secret, c.at)
    ELSE IndexVerifyProxySignature(c.rawBody, c.signature, c.timestamp, c.secret, c.at)

Accepted(out) == out.kind = "return" /\ out.value

\* No pollUntilComplete call has been made.
NoPoll == [pc |-> "idle", timeoutMs |-> 0, baseDelayMs |-> 0, startTime |-> 0,
           attempt |-> 0, exponentialDelay |-> 0, delay |-> 0, earlier |-> {},
           latest |-> "", result |-> "", error |-> "", settledAt |-> 0]

\* No mapError call made yet.
NoRaise == [via |-> "none", code |-> "", status |-> 0, class |-> ""]

\* The request-handling contexts that call verifySignature side by side.
MaxCallers == 2
Callers == 1..MaxCallers

\* A context that has not entered verifySignature.
NoFrame == [pc |-> "idle", rawBody |-> <<>>, signature |-> <<>>, timestamp |-> <<>>,
            secret |-> <<>>, toleranceSeconds |-> 0, now |-> 0, eventTime |-> NaN,
            computedSignature |-> <<>>, signatureBuffer |-> <<>>,
            computedBuffer |-> <<>>, result |-> NoOutcome]

\* calculateRewards has not been called.
NoReward == [called |-> FALSE, result |-> <<>>, baseFeeSats |-> 0, config |-> <<>>,
             totalTip |-> 0, breakdown |-> <<>>]

\* An empty Map or object: a function with no keys.
EmptyMap == <<>>
\* No ProxyClient constructed yet, and no call made.
\* The methods of a client that send a request outside test mode.
ClientOps == {"getTicker", "createTask", "requestTask", "getTask"}
NoSim == [version |-> "none", isTestMode |-> FALSE, activeScenario |-> "HAPPY_PATH",
          mockTaskStore |-> EmptyMap, created |-> 0,
          awaiting |-> [op \in ClientOps |-> 0], timers |-> <<>>]
NoSandbox == [listening |-> FALSE, taskStore |-> EmptyMap, created |-> 0]
NoLast == [op |-> "none", outcome |-> "none", testMode |-> FALSE, version |-> "none",
           http |-> FALSE, code |-> "", class |-> "", errorStatus |-> 0,
           taskId |-> "", status |-> "", hasResult |-> FALSE, createdAt |-> 0,
           prev |-> "", at |-> 0, stored |-> FALSE, taskType |-> "",
           requirements |-> EmptyMap, requirementsAfter |-> EmptyMap]

\* 'mock_hardware_signature_deadbeef'
MockSignature ==
    <<"m", "o", "c", "k", "_", "h", "a", "r", "d", "w", "a", "r", "e", "_",
      "s", "i", "g", "n", "a", "t", "u", "r", "e", "_",
      "d", "e", "a", "d", "b", "e", "e", "f">>
\* The sign() calls of a run, which may overlap, and the last reading of
\* Date.now() a temp path is stamped with.
MaxSigners == 2
MaxStampMs == 1
Signers == 1..MaxSigners
\* A sign() call not made yet.
NoSign == [pc |-> "idle", data |-> <<>>, devicePresent |-> FALSE,
           getcapOk |-> FALSE, execOk |-> FALSE, env |-> "",
           tmpInput |-> "", tmpOutput |-> "", signed |-> FALSE,
           outcome |-> "none", value |-> <<>>, error |-> ""]
\* No sign() call made yet: PROXY_ENV is unset and /tmp holds no temp file.
NoTpm == [env |-> "", now |-> 0, files |-> EmptyMap,
          calls |-> [i \in Signers |-> NoSign]]

Init ==
    /\ tpm = NoTpm
    /\ sim = NoSim
    /\ sandbox = NoSandbox
    /\ last = NoLast
    /\ reward = NoReward
    /\ frames = [i \in Callers |-> NoFrame]
    /\ raised = NoRaise
    /\ ms = 0
    /\ task = "matching"
    /\ poll = NoPoll
    /\ now = Epoch
    /\ call = NoCall
    /\ outcome = NoOutcome
    /\ steps = <<>>
    /\ replay = FALSE

\* A call that hands back the previous call's result when the same request
\* is presented again.
InvokeCached(c, isReplay) ==
    /\ call' = c
    /\ outcome' = IF isReplay THEN outcome ELSE Run(c).out
    /\ steps' = IF isReplay THEN steps ELSE Run(c).steps
    /\ replay' = isReplay
    /\ UNCHANGED <<now, notWebhook>>

\* One call of a verifier, from entry to return or throw.
Invoke(c, isReplay) ==
    /\ call' = c
    /\ outcome' = Run(c).out
    /\ steps' = Run(c).steps
    /\ replay' = isReplay
    /\ UNCHANGED <<now, notWebhook>>

\* A webhook arrives and the handler calls verifySignature (webhook_auth.ts).
CallVerifySignature ==
    /\ call.fn = "none"
    /\ \E b \in Bodies, t \in Timestamps, k \in Secrets, tol \in ToleranceArgs :
           \E k0 \in Secrets : \E sig \in Signatures(k0, t, b) :
               Invoke([fn |-> "verifySignature", rawBody |-> b, signature |-> sig,
                          timestamp |-> t, secret |-> k, tolerance |-> tol, at |-> now],
                         FALSE)

\* A webhook arrives and the handler calls verifyProxySignature (security.ts).
CallSecurityVerify ==
    /\ call.fn = "none"
    /\ \E b \in Bodies, t \in Timestamps, k \in Secrets :
           \E k0 \in Secrets : \E sig \in Signatures(k0, t, b) :
               Invoke([fn |-> "security.verifyProxySignature", rawBody |-> b,
                          signature |-> sig, timestamp |-> t, secret |-> k,
                          tolerance |-> <<>>, at |-> now],
                         FALSE)

\* A webhook arrives and the handler calls verifyProxySignature (index.ts).
CallIndexVerify ==
    /\ call.fn = "none"
    /\ \E b \in Bodies, t \in Timestamps, k \in Secrets :
           \E k0 \in Secrets : \E sig \in Signatures(k0, t, b) :
               Invoke([fn |-> "index.verifyProxySignature", rawBody |-> b,
                          signature |-> sig, timestamp |-> t, secret |-> k,
                          tolerance |-> <<>>, at |-> now],
                         FALSE)

\* A captured request that was accepted is presented again, unchanged, to
\* the same verifier with the same secret.
Replay ==
    /\ call.fn # "none"
    /\ Accepted(outcome)
    /\ Invoke([call EXCEPT !.at = now], TRUE)

\* The handler answers the request (401 or 200) and is ready for the next.
Respond ==
    /\ call.fn # "none"
    /\ call' = NoCall
    /\ outcome' = NoOutcome
    /\ steps' = <<>>
    /\ replay' = FALSE
    /\ UNCHANGED <<now, notWebhook>>

\* Time passes.
Tick ==
    /\ now + TickSeconds \in ClockValues
    /\ now' = now + TickSeconds
    /\ UNCHANGED <<call, outcome, steps, replay, notWebhook>>

Next ==
    \/ CallVerifySignature
    \/ CallSecurityVerify
    \/ CallIndexVerify
    \/ Replay
    \/ Respond
    \/ Tick

Spec == Init /\ [][Next]_vars

\* ------------------------------------------------- polling (browser client)
\* pollUntilComplete's defaults and the constants of its backoff.
DefaultTimeoutMs == 300000
DefaultBaseDelayMs == 1000
MaxBackoffMs == 30000
MaxJitterMs == 1000

\* The arguments the model passes besides the defaults, and the time one
\* getTask round trip may take.
ShortTimeoutMs == 1500
LongBaseDelayMs == 40000
LatencyMs == 1

\* A setTimeout callback runs when Date.now() is at its deadline, up to
\* MaxTimerEarlyMs before it (the timer runs on another clock than
\* Date.now()) or up to MaxTimerLateMs after it.
MaxTimerEarlyMs == 1
MaxTimerLateMs == 2

Min(a, b) == IF a < b THEN a ELSE b

\* Math.pow(2, attempt) for the attempt numbers a call reaches.
RECURSIVE Pow2(_)
Pow2(n) == IF n = 0 THEN 1 ELSE 2 * Pow2(n - 1)

\* Backoff without the 30 s cap.
ExponentialDelayUncapped(baseDelayMs, attempt) == baseDelayMs * Pow2(attempt)

\* const exponentialDelay = Math.min(30000, baseDelayMs * Math.pow(2, attempt))
ExponentialDelay(baseDelayMs, attempt) ==
    Min(MaxBackoffMs, baseDelayMs * Pow2(attempt))

\* Math.round(Math.random() * 1000): an integer from 0 to 1000; the model
\* draws every JitterStepMs-th of them, from 0 on.
JitterStepMs == 1000
Jitters == {k * JitterStepMs : k \in 0..(MaxJitterMs \div JitterStepMs)}

\* A status that ends polling only when the task completed.
IsTerminalCompletedOnly(status) == status = "completed"

\* task.status === 'completed' || task.status === 'failed'
IsTerminal(status) == status = "completed" \/ status = "failed"

\* timeoutMs and baseDelayMs as passed: <<>> is an omitted argument.
TimeoutArgs == {<<>>, <<0>>, <<ShortTimeoutMs>>}
BaseDelayArgs == {<<>>, <<LongBaseDelayMs>>}
Latencies == {0, LatencyMs}

\* pollUntilComplete is called: startTime = Date.now(), attempt = 0.
CallPollUntilComplete ==
    /\ poll.pc = "idle"
    /\ \E timeoutArg \in TimeoutArgs, baseArg \in BaseDelayArgs :
           poll' = [NoPoll EXCEPT
                       !.pc = "while",
                       !.timeoutMs = IF timeoutArg = <<>> THEN DefaultTimeoutMs
                                     ELSE timeoutArg[1],
                       !.baseDelayMs = IF baseArg = <<>> THEN DefaultBaseDelayMs
                                       ELSE baseArg[1],
                       !.startTime = ms]
    /\ UNCHANGED <<ms, task, notPoll>>

\* while (Date.now() - startTime < timeoutMs), and the throw after the loop.
PollWhile ==
    /\ poll.pc = "while"
    /\ poll' = IF ms - poll.startTime < poll.timeoutMs
               THEN [poll EXCEPT !.pc = "getTask"]
               ELSE [poll EXCEPT !.pc = "thrown", !.error = "Polling timed out",
                                 !.settledAt = ms]
    /\ UNCHANGED <<ms, task, notPoll>>

\* await this.getTask(taskId), the status test, and the delay computed for
\* the wait. getTask rejects when the API answers with an error status, and
\* the rejection leaves pollUntilComplete as it is.
PollGetTask ==
    /\ poll.pc = "getTask"
    /\ \E latency \in Latencies, ok \in BOOLEAN, jitter \in Jitters :
           /\ ms' = ms + latency
           /\ poll' =
                  IF ~ok
                  THEN [poll EXCEPT !.pc = "thrown", !.error = "ProxyProtocol Error",
                                    !.settledAt = ms']
                  ELSE IF IsTerminal(task)
                  THEN [poll EXCEPT !.pc = "returned", !.result = task,
                                    !.earlier = @ \cup ({poll.latest} \ {""}),
                                    !.latest = task,
                                    !.settledAt = ms']
                  ELSE [poll EXCEPT
                           !.pc = "setTimeout",
                           !.earlier = @ \cup ({poll.latest} \ {""}),
                           !.latest = task,
                           !.exponentialDelay =
                               ExponentialDelay(poll.baseDelayMs, poll.attempt),
                           !.delay =
                               ExponentialDelay(poll.baseDelayMs, poll.attempt) + jitter]
    /\ UNCHANGED <<task, notPoll>>

\* await new Promise(resolve => setTimeout(resolve, delay)); attempt++. The
\* callback runs when Date.now() has moved on by the delay, up to
\* MaxTimerEarlyMs less or MaxTimerLateMs more.
PollSetTimeout ==
    /\ poll.pc = "setTimeout"
    /\ \E waited \in (poll.delay - MaxTimerEarlyMs)..(poll.delay + MaxTimerLateMs) :
           /\ waited >= 0
           /\ ms' = ms + waited
    /\ poll' = [poll EXCEPT !.pc = "while", !.attempt = @ + 1]
    /\ UNCHANGED <<task, notPoll>>

\* The network works on the task: matching, in progress, then completed or
\* failed.
TaskProgress ==
    /\ poll.pc \notin {"idle", "returned", "thrown"}
    /\ \/ task = "matching" /\ task' = "in_progress"
       \/ task = "in_progress" /\ task' \in {"completed", "failed"}
    /\ UNCHANGED <<ms, poll, notPoll>>

PollStep == PollWhile \/ PollGetTask \/ PollSetTimeout

NextPoll ==
    \/ CallPollUntilComplete
    \/ PollWhile
    \/ PollGetTask
    \/ PollSetTimeout
    \/ TaskProgress

\* The event loop runs a call's next step once it is ready: a pending
\* promise or timer is not starved.
SpecPoll == Init /\ [][NextPoll]_vars /\ WF_vars(PollStep)

\* ------------------------------------------- error mapping and task creation
\* The PX codes of ProxyErrorCode, and other codes an API answer may carry.
ProxyErrorCodes ==
    {"PX_100", "PX_101", "PX_102", "PX_103", "PX_200", "PX_201", "PX_202", "PX_203",
     "PX_300", "PX_301", "PX_302", "PX_303", "PX_400", "PX_401", "PX_402", "PX_403",
     "PX_500", "PX_501", "PX_502"}
Codes == ProxyErrorCodes \cup {"PX_999", ""}
Statuses == {400, 401, 402, 403, 404, 429, 500, 502, 503}

\* mapError's default branch: the class by HTTP status.
MapErrorFallback(status) ==
    IF status = 401 \/ status = 403 THEN "AuthenticationError"
    ELSE IF status = 402 THEN "PaymentRequiredError"
    ELSE IF status = 429 \/ status = 503 THEN "RateLimitError"
    ELSE IF status >= 500 THEN "ServerError"
    ELSE "InvalidRequestError"

\* An error factory that looks at the HTTP status before the code.
MapErrorStatusFirst(code, status) ==
    IF status \in {401, 402, 403, 429, 503} THEN MapErrorFallback(status)
    ELSE IF code \in {"PX_100", "PX_103", "PX_101"} THEN "AuthenticationError"
    ELSE IF code \in {"PX_200", "PX_203", "PX_202"} THEN "PaymentRequiredError"
    ELSE IF code \in {"PX_102", "PX_500"} THEN "RateLimitError"
    ELSE IF code \in {"PX_400", "PX_401", "PX_402", "PX_403"} THEN "SecurityError"
    ELSE IF code \in {"PX_502", "PX_501"} THEN "ServerError"
    ELSE MapErrorFallback(status)

\* mapError(code, message, status): the class of the error it returns.
MapError(code, status) ==
    IF code \in {"PX_100", "PX_103", "PX_101"} THEN "AuthenticationError"
    ELSE IF code \in {"PX_200", "PX_203", "PX_202"} THEN "PaymentRequiredError"
    ELSE IF code \in {"PX_102", "PX_500"} THEN "RateLimitError"
    ELSE IF code \in {"PX_400", "PX_401", "PX_402", "PX_403"} THEN "SecurityError"
    ELSE IF code \in {"PX_502", "PX_501"} THEN "ServerError"
    ELSE MapErrorFallback(status)

\* const code = data?.error?.code || `HTTP_${status}`
ResponseCode(code, status) == IF code = "" THEN "HTTP_" \o ToString(status) ELSE code

\* ProxyClient's axios response interceptor: the class it throws for an
\* error response. The 1.7.2 client adds the 400 case.
Interceptor(version, status) ==
    IF status = 401 \/ status = 403 THEN "AuthenticationError"
    ELSE IF status = 402 THEN "InsufficientEscrowError"
    ELSE IF status = 400 /\ version = "1.7.2" THEN "InvalidRequestError"
    ELSE IF status = 429 THEN "NodeRateLimitedError"
    ELSE IF status = 500 \/ status = 503 THEN "ServerError"
    ELSE "ProxyError"

\* SimulationScenario of the 1.3.0 client and of the 1.7.2 client.
Scenarios(version) ==
    IF version = "1.3.0"
    THEN {"HAPPY_PATH", "BROWNOUT_ACTIVE", "INSUFFICIENT_FUNDS", "RANDOM_LATENCY"}
    ELSE {"HAPPY_PATH", "BROWNOUT_ACTIVE", "INSUFFICIENT_FUNDS"}

Raise(via, code, status, class) ==
    [via |-> via, code |-> code, status |-> status, class |-> class]
\* mapError is called on an API answer.
CallMapError ==
    /\ \E code \in Codes, status \in Statuses :
           raised' = Raise("mapError", code, status, MapError(code, status))
    /\ UNCHANGED notErrors

\* The API's error answers: a status and the code of the body, "" where the
\* body carries none. The model draws every status with each of the first
\* MaxAnswerCodes codes of AnswerCodes.
MaxAnswerCodes == 2
AnswerCodes == <<"", "PX_200", "PX_500", "PX_999">>
ErrorResponses ==
    {[code |-> AnswerCodes[i], status |-> st] : i \in 1..MaxAnswerCodes, st \in Statuses}

NextErrors == CallMapError

SpecErrors == Init /\ [][NextErrors]_vars

\* ------------------------------------------ concurrent verifySignature calls
\* The requests the concurrent contexts verify: a good one sent now, the
\* same with another body, the same with the signature cut short, a good one
\* sent one tick from now, and one without a timestamp.
ConcurrentSecret == <<"a", "b">>
ConcurrentInputs ==
    LET t0 == Dec(Epoch)
        t1 == Dec(Epoch + TickSeconds)
        good == SenderSign(ConcurrentSecret, t0, <<"a">>)
    IN  {[rawBody |-> <<"a">>, signature |-> good, timestamp |-> t0],
         [rawBody |-> <<".">>, signature |-> good, timestamp |-> t0],
         [rawBody |-> <<"a">>, signature |-> SubSeq(good, 1, Len(good) - 1),
          timestamp |-> t0],
         [rawBody |-> <<"a">>, signature |-> SenderSign(ConcurrentSecret, t1, <<"a">>),
          timestamp |-> t1],
         [rawBody |-> <<"a">>, signature |-> good, timestamp |-> <<>>]}

\* A variable declared at module level: every call writes the same one.
WriteModuleLevel(fs, i, name, value) ==
    [j \in DOMAIN fs |-> [fs[j] EXCEPT ![name] = value]]

\* A const of the function body: it belongs to the call that declares it.
WriteLocal(fs, i, name, value) == [fs EXCEPT ![i][name] = value]

Goto(fs, i, pc) == [fs EXCEPT ![i].pc = pc]
ReturnFrom(fs, i, value) == [fs EXCEPT ![i].pc = "done", ![i].result = Return(value)]

\* verifySignature(rawBody, signature, timestamp, secret) is entered.
Enter(i) ==
    /\ frames[i].pc = "idle"
    /\ \E in \in ConcurrentInputs :
           frames' = [frames EXCEPT ![i] =
                          [NoFrame EXCEPT !.pc = "now",
                                          !.rawBody = in.rawBody,
                                          !.signature = in.signature,
                                          !.timestamp = in.timestamp,
                                          !.secret = ConcurrentSecret,
                                          !.toleranceSeconds = DefaultTolerance]]
    /\ UNCHANGED notFrames

\* const now = Math.floor(Date.now() / 1000); const eventTime = parseInt(...)
ReadClock(i) ==
    /\ frames[i].pc = "now"
    /\ frames' = Goto(WriteLocal(WriteLocal(frames, i, "now", now),
                                 i, "eventTime", ParseInt(frames[i].timestamp)),
                      i, "isNaN")
    /\ UNCHANGED notFrames

\* if (isNaN(eventTime)) return false; if (Math.abs(now - eventTime) > ...)
CheckWindow(i) ==
    /\ frames[i].pc = "isNaN"
    /\ frames' =
           IF frames[i].eventTime.nan THEN ReturnFrom(frames, i, FALSE)
           ELSE IF OutsideWindow(frames[i].now, frames[i].eventTime.val,
                                 frames[i].toleranceSeconds)
           THEN ReturnFrom(frames, i, FALSE)
           ELSE Goto(frames, i, "hmac")
    /\ UNCHANGED notFrames

\* payload = timestamp + "." + body; computedSignature = its HMAC in hex
ComputeSignature(i) ==
    /\ frames[i].pc = "hmac"
    /\ frames' =
           Goto(WriteLocal(frames, i, "computedSignature",
                           HexEncode(Hmac(frames[i].secret,
                                          PayloadBuffer(frames[i].timestamp,
                                                        frames[i].rawBody)))),
                i, "decode")
    /\ UNCHANGED notFrames

\* signatureBuffer and computedBuffer are decoded from hex
DecodeBuffers(i) ==
    /\ frames[i].pc = "decode"
    /\ frames' =
           Goto(WriteLocal(WriteLocal(frames, i, "signatureBuffer",
                                      HexDecode(frames[i].signature)),
                           i, "computedBuffer", HexDecode(frames[i].computedSignature)),
                i, "compare")
    /\ UNCHANGED notFrames

\* the length test and timingSafeEqual(computedBuffer, signatureBuffer)
CompareBuffers(i) ==
    /\ frames[i].pc = "compare"
    /\ frames' =
           IF Len(frames[i].signatureBuffer) # Len(frames[i].computedBuffer)
           THEN ReturnFrom(frames, i, FALSE)
           ELSE [frames EXCEPT
                    ![i].pc = "done",
                    ![i].result =
                        Compared(TimingSafeEqual(frames[i].computedBuffer,
                                                 frames[i].signatureBuffer), <<>>).out]
    /\ UNCHANGED notFrames

NextConcurrent ==
    \/ \E i \in Callers : Enter(i)
    \/ \E i \in Callers : ReadClock(i)
    \/ \E i \in Callers : CheckWindow(i)
    \/ \E i \in Callers : ComputeSignature(i)
    \/ \E i \in Callers : DecodeBuffers(i)
    \/ \E i \in Callers : CompareBuffers(i)
    \/ Tick

SpecConcurrent == Init /\ [][NextConcurrent]_vars

\* ------------------------------------------------------- reward calculator
\* DEFAULT_CONFIG. intuitionMultiplier is a fraction in the source (0.20);
\* the model holds it in hundredths.
DefaultConfig ==
    [speedRatePerMinute |-> 10, intuitionMultiplier |-> 20, qualityMultiplier |-> 20,
     maxTipAllowance |-> 5000]

\* A cap that looks at the allowance alone.
SafetyCapAllowanceOnly(config, baseFeeSats) == config.maxTipAllowance

\* const safetyCap = Math.min(config.maxTipAllowance, baseFeeSats)
SafetyCap(config, baseFeeSats) == Min(config.maxTipAllowance, baseFeeSats)

\* The speed bonus added to the tip: Math.floor(timeSaved * rate) when the
\* task beat its SLA and the bonus is positive, nothing otherwise.
SpeedBonus(result, config) ==
    IF result.actualDurationMinutes < result.slaDurationMinutes
    THEN LET speedBonus == (result.slaDurationMinutes - result.actualDurationMinutes)
                               * config.speedRatePerMinute
         IN  IF speedBonus > 0 THEN speedBonus ELSE 0
    ELSE 0

\* Math.floor(baseFeeSats * config.intuitionMultiplier) on an override.
IntuitionBonus(result, baseFeeSats, config) ==
    IF result.intuitionOverride
    THEN (baseFeeSats * config.intuitionMultiplier) \div 100
    ELSE 0

\* Math.floor((qualityScore - 5) * qualityMultiplier) for scores above 5.
QualityBonus(result, config) ==
    IF result.qualityScore > 5
    THEN (result.qualityScore - 5) * config.qualityMultiplier
    ELSE 0

\* calculateRewards(result, baseFeeSats, config): totalTip and breakdown.
CalculateRewards(result, baseFeeSats, config) ==
    LET speed == SpeedBonus(result, config)
        intuition == IntuitionBonus(result, baseFeeSats, config)
        quality == QualityBonus(result, config)
        sum == speed + intuition + quality
        safetyCap == SafetyCap(config, baseFeeSats)
        capped == sum > safetyCap
        keys == (IF speed > 0 THEN {"RWD_SPEED"} ELSE {})
                    \cup (IF result.intuitionOverride THEN {"RWD_INTUITION"} ELSE {})
                    \cup (IF result.qualityScore > 5 THEN {"RWD_QUALITY"} ELSE {})
                    \cup (IF capped THEN {"BUDGET_CAP_ENFORCED"} ELSE {})
    IN  [totalTip |-> IF capped THEN safetyCap ELSE sum,
         breakdown |-> [k \in keys |->
                           IF k = "RWD_SPEED" THEN speed
                           ELSE IF k = "RWD_INTUITION" THEN intuition
                           ELSE IF k = "RWD_QUALITY" THEN quality
                           ELSE 0]]

\* The task results, base fees and configurations the model passes.
TaskResults ==
    [actualDurationMinutes : {45, 60, 90}, slaDurationMinutes : {60},
     intuitionOverride : BOOLEAN, qualityScore : {1, 5, 9, 10}]
BaseFees == {-100, 0, 100, 1000, 5000, 6000}
RewardConfigs ==
    {DefaultConfig,
     [DefaultConfig EXCEPT !.maxTipAllowance = 100],
     [DefaultConfig EXCEPT !.speedRatePerMinute = 1000, !.maxTipAllowance = 10000],
     [DefaultConfig EXCEPT !.qualityMultiplier = -20, !.speedRatePerMinute = -10]}

\* calculateRewards is called.
CallCalculateRewards ==
    /\ \E result \in TaskResults, baseFeeSats \in BaseFees, config \in RewardConfigs :
           LET r == CalculateRewards(result, baseFeeSats, config)
           IN  reward' = [called |-> TRUE, result |-> result,
                          baseFeeSats |-> baseFeeSats, config |-> config,
                          totalTip |-> r.totalTip, breakdown |-> r.breakdown]
    /\ UNCHANGED notReward

NextRewards == CallCalculateRewards

SpecRewards == Init /\ [][NextRewards]_vars

\* ------------------------------------------ simulator: client and sandbox
\* map.set(key, value), obj[key] = value
MapSet(map, key, value) ==
    [k \in DOMAIN map \cup {key} |-> IF k = key THEN value ELSE map[k]]

\* `task_sim_${Date.now()}` and `task_mock_${Date.now()}`
MockId(prefix, t) == prefix \o ToString(t)

\* The thresholds of the mock lifecycle: the client's "elapsed > 2000",
\* "elapsed > 5000" in milliseconds and the sandbox's "ageSeconds > 5",
\* "ageSeconds > 15" in seconds, ageSeconds being the milliseconds / 1000.
ClientInProgressAfterMs == 2000
ClientCompletedAfterMs == 5000
SandboxInProgressAfterS == 5
SandboxCompletedAfterS == 15

\* A lifecycle that moves on when a threshold is reached.
LifecycleStatusInclusive(elapsed, inProgressAfter, completedAfter) ==
    IF elapsed >= completedAfter THEN "completed"
    ELSE IF elapsed >= inProgressAfter THEN "in_progress"
    ELSE "matching"

\* if (elapsed > second) completed; else if (elapsed > first) in_progress
LifecycleStatus(elapsed, inProgressAfter, completedAfter) ==
    IF elapsed > completedAfter THEN "completed"
    ELSE IF elapsed > inProgressAfter THEN "in_progress"
    ELSE "matching"

\* REQUIREMENT_SCHEMAS[taskType]; "none" stands for no schema.
NoSchema == [required |-> <<>>, enums |-> EmptyMap, patterns |-> EmptyMap]
HasSchema(taskType) ==
    taskType \in {"verify_sms_otp", "verify_kyc_video", "legal_notary_sign",
                  "physical_mail_receive"}
RequirementSchema(taskType) ==
    IF taskType = "verify_sms_otp"
    THEN [NoSchema EXCEPT !.required = <<"service", "country">>,
                          !.patterns = [f \in {"country"} |-> "^[A-Z]{2}$"]]
    ELSE IF taskType = "verify_kyc_video"
    THEN [NoSchema EXCEPT
             !.required = <<"platform_url", "id_document_types", "liveness_check">>]
    ELSE IF taskType = "legal_notary_sign"
    THEN [NoSchema EXCEPT
             !.required = <<"jurisdiction", "document_url", "signature_capacity",
                            "notary_seal_required">>,
             !.enums = [f \in {"jurisdiction", "signature_capacity"} |->
                           IF f = "jurisdiction" THEN {"US_DE", "UK", "SG"}
                           ELSE {"witness", "attorney_in_fact", "notary"}]]
    ELSE IF taskType = "physical_mail_receive"
    THEN [NoSchema EXCEPT
             !.required = <<"recipient_name", "scanning_instructions",
                            "shred_after_scan">>,
             !.enums = [f \in {"scanning_instructions"} |->
                           {"scan_envelope", "scan_contents", "forward_physical"}]]
    ELSE NoSchema

\* The strings /^[A-Z]{2}$/ matches: two letters from A to Z.
TwoUpperLetters ==
    LET UpperLetters ==
            {"A", "B", "C", "D", "E", "F", "G", "H", "I", "J", "K", "L", "M", "N",
             "O", "P", "Q", "R", "S", "T", "U", "V", "W", "X", "Y", "Z"}
    IN  {a \o b : a, b \in UpperLetters}
\* /^[A-Z]{2}$/.test(value)
PatternTest(pattern, value) == value \in TwoUpperLetters

\* _validateRequirements: "ok", or which check threw InvalidRequestError
\* PX_302: a required field missing, an enum value, a pattern.
\* value is (requirements as any)[field]: undefined, here "", for an absent
\* field; a string is truthy unless it is empty.
ValidateRequirements(taskType, requirements) ==
    LET schema == RequirementSchema(taskType)
        value(field) ==
            IF field \in DOMAIN requirements THEN requirements[field] ELSE ""
        Truthy(v) == v # ""
    IN  IF ~HasSchema(taskType) THEN "ok"
        ELSE IF \E i \in 1..Len(schema.required) :
                    schema.required[i] \notin DOMAIN requirements
        THEN "missing"
        ELSE IF \E f \in DOMAIN schema.enums :
                    Truthy(value(f)) /\ value(f) \notin schema.enums[f]
        THEN "enum"
        ELSE IF \E f \in DOMAIN schema.patterns :
                    Truthy(value(f)) /\ ~PatternTest(schema.patterns[f], value(f))
        THEN "pattern"
        ELSE "ok"

\* resolveLegalTemplate(countryCode), on the country codes the model passes.
ToUpperCase(countryCode) == IF countryCode = "sg" THEN "SG" ELSE countryCode
ResolveLegalTemplate(countryCode) ==
    IF ToUpperCase(countryCode) = "US" THEN "templates/legal/us_delaware_poa.md"
    ELSE IF ToUpperCase(countryCode) = "GB" THEN "templates/legal/uk_poa.md"
    ELSE IF ToUpperCase(countryCode) = "SG" THEN "templates/legal/singapore_poa.md"
    ELSE "templates/legal/ai_power_of_attorney.md"

\* The requests the model passes to requestTask: task type and requirements.
\* Boolean fields are only tested for presence and hold "true".
SmsRequirements(country) ==
    [f \in {"service", "country"} |-> IF f = "service" THEN "OpenAI" ELSE country]
LegalRequirements(jurisdiction, capacity) ==
    [f \in {"jurisdiction", "document_url", "signature_capacity",
            "notary_seal_required"} |->
        IF f = "jurisdiction" THEN jurisdiction
        ELSE IF f = "signature_capacity" THEN capacity
        ELSE IF f = "document_url" THEN "https://docs/1" ELSE "true"]
TaskRequests ==
    LET Req(taskType, requirements) ==
            [taskType |-> taskType, requirements |-> requirements]
    IN
    {Req("verify_sms_otp", SmsRequirements("US")),
     Req("verify_sms_otp", [f \in {"service"} |-> "OpenAI"]),
     Req("verify_sms_otp", SmsRequirements("usa")),
     Req("verify_sms_otp", SmsRequirements("")),
     Req("legal_notary_sign", LegalRequirements("UK", "notary")),
     Req("legal_notary_sign", LegalRequirements("FR", "notary")),
     Req("legal_notary_sign", LegalRequirements("SG", "")),
     Req("custom_adhoc", EmptyMap)}
\* options: <<>> is none, <<countryCode>> is { autoLegal: true, countryCode }.
RequestOptions == {<<>>, <<"US">>, <<"sg">>, <<"FR">>}

\* The most mock tasks a client, and the sandbox, creates in one run.
MaxCreations == 2
\* Creation calls are made up to this instant of a run, so that the clock
\* then passes each threshold of the tasks' lifecycle.
LastCreationMs == 0
\* The most calls of a client that wait for an answer or a timer at once.
MaxInFlight == 1
\* The clock moves at most this far between the first and the last reading
\* of one handler.
MaxClockStepMs == 1
\* The instants the clock is moved to: one millisecond past each lifecycle
\* threshold of the simulator in use, so that a task stored at 0 is past the
\* threshold and one stored at 1 is on it; the 1.7.2 client has no
\* threshold. The instants between come from the readings inside a handler
\* and from the timers.
SimTimes ==
    IF sandbox.listening
    THEN {SandboxInProgressAfterS * 1000 + 1, SandboxCompletedAfterS * 1000 + 1}
    ELSE IF sim.version = "1.3.0"
    THEN {ClientInProgressAfterMs + 1, ClientCompletedAfterMs + 1}
    ELSE {}
\* Math.floor(Math.random() * 2000) + 500: an integer from 500 to 2499; the
\* model draws every LatencyStepMs-th of them, from 500 on.
LatencySpanMs == 2000
MinLatencyMs == 500
LatencyStepMs == 1000
SimLatencies ==
    {MinLatencyMs + k * LatencyStepMs : k \in 0..((LatencySpanMs - 1) \div LatencyStepMs)}

\* A call of the client, with the mode it found and the clock at the call.
ClientCall(op) ==
    [NoLast EXCEPT !.op = op, !.version = sim.version, !.testMode = sim.isTestMode,
                   !.at = ms]
\* The call ended by throwing an error of this class with this code and
\* status.
Thrown(c, class, code, status) ==
    [c EXCEPT !.outcome = "thrown", !.class = class, !.code = code,
              !.errorStatus = status]
\* The calls of the client that wait for an answer or for a timer.
InFlight(client) ==
    Len(client.timers) + client.awaiting["getTicker"] + client.awaiting["createTask"]
        + client.awaiting["requestTask"] + client.awaiting["getTask"]
\* await this.api.get / post: the request is sent and the call waits for
\* the answer.
OverHttp(c) ==
    /\ InFlight(sim) < MaxInFlight
    /\ sim' = [sim EXCEPT !.awaiting[c.op] = @ + 1]
    /\ last' = [c EXCEPT !.http = TRUE, !.outcome = "pending"]
\* A mock task was stored under id and returned; t is the created_at of the
\* answer, for the sandbox, whose answer has none, that of the stored task.
Created(c, id, t) ==
    [c EXCEPT !.outcome = "resolved", !.taskId = id, !.status = "matching",
              !.createdAt = t, !.stored = TRUE]
\* A status query answered; prev is the status the call before reported for
\* the task, "" when the call before was about something else.
Reported(c, id, createdAt, status) ==
    [c EXCEPT !.outcome = "resolved", !.taskId = id, !.status = status,
              !.hasResult = (status = "completed"), !.createdAt = createdAt,
              !.prev = IF last.taskId = id /\ last.outcome = "resolved"
                       THEN last.status ELSE ""]

\* new ProxyClient(config): a run uses a client or the sandbox server.
SimConstruct ==
    /\ sim.version = "none"
    /\ ~sandbox.listening
    /\ \E version \in {"1.3.0", "1.7.2"} : sim' = [NoSim EXCEPT !.version = version]
    /\ UNCHANGED <<ms, sandbox, last, notSim>>

\* client.enableTestMode(scenario)
SimEnableTestMode ==
    /\ sim.version # "none"
    /\ \E scenario \in Scenarios(sim.version) :
           sim' = [sim EXCEPT !.isTestMode = TRUE, !.activeScenario = scenario]
    /\ last' = [ClientCall("enableTestMode") EXCEPT !.outcome = "resolved"]
    /\ UNCHANGED <<ms, sandbox, notSim>>

\* A getTicker that asks the network whatever the mode.
SimGetTickerOverHttp ==
    /\ sim.version # "none"
    /\ OverHttp(ClientCall("getTicker"))
    /\ UNCHANGED <<ms, sandbox, notSim>>

\* client.getTicker(), either version
SimGetTicker ==
    /\ sim.version # "none"
    /\ IF sim.isTestMode
       THEN /\ last' = [ClientCall("getTicker") EXCEPT !.outcome = "resolved"]
            /\ UNCHANGED sim
       ELSE OverHttp(ClientCall("getTicker"))
    /\ UNCHANGED <<ms, sandbox, notSim>>

\* The simulated creation both versions end with, client being the client's
\* fields as the code finds them: the id is made from one reading of
\* Date.now(), stored with the next, and the created_at returned is a third.
StoreMockTask(c, client) ==
    /\ client.created + Len(client.timers) < MaxCreations
    /\ \E stored \in ms..(ms + MaxClockStepMs) :
           \E createdAt \in stored..(ms + MaxClockStepMs) :
               /\ sim' = [client EXCEPT
                             !.mockTaskStore = MapSet(@, MockId("task_sim_", ms), stored),
                             !.created = @ + 1]
               /\ last' = Created(c, MockId("task_sim_", ms), createdAt)
               /\ ms' = createdAt

\* createTask of 1.3.0 in test mode from "Simulate Failures" on, at the call
\* or when the latency timer has fired: the scenario is read here.
CreateTaskSimulated(c, client) ==
    IF client.activeScenario = "BROWNOUT_ACTIVE"
    THEN /\ last' = Thrown(c, "ServerError", "PX_500", 503)
         /\ sim' = client
         /\ UNCHANGED ms
    ELSE IF client.activeScenario = "INSUFFICIENT_FUNDS"
    THEN /\ last' = Thrown(c, "InsufficientEscrowError", "PX_200", 402)
         /\ sim' = client
         /\ UNCHANGED ms
    ELSE StoreMockTask(c, client)

\* client.createTask(...) of 1.3.0, up to its first await or to its end.
SimCreateTask ==
    /\ sim.version = "1.3.0"
    /\ LET c == ClientCall("createTask")
       IN  IF ~sim.isTestMode
           THEN OverHttp(c) /\ UNCHANGED ms
           ELSE IF sim.activeScenario = "RANDOM_LATENCY"
           THEN /\ InFlight(sim) < MaxInFlight
                /\ sim.created + Len(sim.timers) < MaxCreations
                /\ ms <= LastCreationMs
                /\ \E latency \in SimLatencies :
                       sim' = [sim EXCEPT !.timers = Append(@, ms + latency)]
                /\ last' = [c EXCEPT !.outcome = "pending"]
                /\ UNCHANGED ms
           ELSE ms <= LastCreationMs /\ CreateTaskSimulated(c, sim)
    /\ UNCHANGED <<sandbox, notSim>>

\* The latency timer of a createTask call fires, the earliest first, and
\* the call goes on: when Date.now() is at the deadline, up to
\* MaxTimerEarlyMs before it, or any time after it.
SimCreateTaskResume ==
    /\ \E i \in 1..Len(sim.timers) :
           /\ ms >= sim.timers[i] - MaxTimerEarlyMs
           /\ \A j \in 1..Len(sim.timers) :
                  sim.timers[j] > sim.timers[i] \/ (sim.timers[j] = sim.timers[i] /\ j >= i)
           /\ CreateTaskSimulated(
                  [ClientCall("createTask") EXCEPT !.testMode = TRUE],
                  [sim EXCEPT !.timers =
                      [k \in 1..(Len(@) - 1) |-> IF k < i THEN @[k] ELSE @[k + 1]]])
    /\ UNCHANGED <<sandbox, notSim>>

\* The answer to a request in flight arrives: the call resolves, or the
\* response interceptor throws the class of the error answer's status, or,
\* with no answer at all, the axios error itself.
SimSettle ==
    /\ \E op \in ClientOps :
           LET c == [ClientCall(op) EXCEPT !.testMode = FALSE, !.http = TRUE]
           IN  /\ sim.awaiting[op] > 0
               /\ sim' = [sim EXCEPT !.awaiting[op] = @ - 1]
               /\ \/ last' = [c EXCEPT !.outcome = "resolved"]
                  \/ \E r \in ErrorResponses :
                         last' = Thrown(c, Interceptor(c.version, r.status),
                                        ResponseCode(r.code, r.status), r.status)
                  \/ last' = Thrown(c, "AxiosError", "ECONNABORTED", 0)
    /\ UNCHANGED <<ms, sandbox, notSim>>

\* client.requestTask(taskType, requirements, maxBudgetSats, options) of 1.7.2
SimRequestTask ==
    /\ sim.version = "1.7.2"
    /\ \E req \in TaskRequests, options \in RequestOptions :
           LET c == [ClientCall("requestTask") EXCEPT
                        !.requirements = req.requirements,
                        !.requirementsAfter = req.requirements,
                        !.taskType = req.taskType]
               sent == [c EXCEPT !.requirementsAfter =
                           IF options = <<>> THEN req.requirements
                           ELSE MapSet(req.requirements, "legal_template",
                                       ResolveLegalTemplate(options[1]))]
           IN  IF ValidateRequirements(req.taskType, req.requirements) # "ok"
               THEN /\ last' = Thrown(c, "InvalidRequestError", "PX_302", 400)
                    /\ UNCHANGED <<ms, sim>>
               ELSE IF sim.isTestMode
               THEN IF sim.activeScenario = "INSUFFICIENT_FUNDS"
                    THEN /\ last' = Thrown(sent, "InsufficientEscrowError", "PX_200", 402)
                         /\ UNCHANGED <<ms, sim>>
                    ELSE ms <= LastCreationMs /\ StoreMockTask(sent, sim)
               ELSE OverHttp(sent) /\ UNCHANGED ms
    /\ UNCHANGED <<sandbox, notSim>>

\* client.getTask(taskId), either version. In test mode 1.3.0 answers from
\* the store's creation time and 1.7.2 always reports in_progress, with
\* `get(taskId) || Date.now()` as the creation time.
SimGetTask ==
    /\ sim.version # "none"
    /\ \E taskId \in DOMAIN sim.mockTaskStore \cup {"task_sim_404"} :
           LET c == [ClientCall("getTask") EXCEPT !.taskId = taskId]
               known == taskId \in DOMAIN sim.mockTaskStore
           IN  IF ~sim.isTestMode
               THEN OverHttp(c)
               ELSE IF sim.version = "1.3.0"
               THEN /\ UNCHANGED sim
                    /\ IF ~known
                       THEN last' = Thrown(c, "Error", "", 0)
                       ELSE LET createdAt == sim.mockTaskStore[taskId]
                            IN  last' = Reported(c, taskId, createdAt,
                                                 LifecycleStatus(ms - createdAt,
                                                                 ClientInProgressAfterMs,
                                                                 ClientCompletedAfterMs))
               ELSE LET createdAt ==
                            IF known /\ sim.mockTaskStore[taskId] # 0
                            THEN sim.mockTaskStore[taskId] ELSE ms
                    IN  /\ UNCHANGED sim
                        /\ last' = [Reported(c, taskId, createdAt, "in_progress")
                                       EXCEPT !.hasResult = FALSE]
    /\ UNCHANGED <<ms, sandbox, notSim>>

\* server.listen(PORT): the sandbox server starts with an empty taskStore.
SandboxListen ==
    /\ sim.version = "none"
    /\ ~sandbox.listening
    /\ sandbox' = [NoSandbox EXCEPT !.listening = TRUE]
    /\ UNCHANGED <<ms, sim, last, notSim>>

\* A call of the sandbox server.
SandboxCall(op) == [NoLast EXCEPT !.op = op, !.version = "sandbox", !.at = ms]

\* POST /v1/request on the sandbox: a JSON body creates a task, the id made
\* from one reading of Date.now() and created_at from the next; anything
\* else is answered 400.
SandboxPostRequest ==
    /\ sandbox.listening
    /\ \E json \in BOOLEAN :
           IF json
           THEN /\ sandbox.created < MaxCreations
                /\ ms <= LastCreationMs
                /\ \E t \in ms..(ms + MaxClockStepMs) :
                       /\ sandbox' = [sandbox EXCEPT
                                         !.taskStore = MapSet(@, MockId("task_mock_", ms), t),
                                         !.created = @ + 1]
                       /\ last' = Created(SandboxCall("POST /v1/request"),
                                          MockId("task_mock_", ms), t)
                       /\ ms' = t
           ELSE /\ last' = Thrown(SandboxCall("POST /v1/request"), "400", "", 400)
                /\ UNCHANGED <<ms, sandbox>>
    /\ UNCHANGED <<sim, notSim>>

\* GET /v1/tasks/:id on the sandbox
SandboxGetTask ==
    /\ sandbox.listening
    /\ \E taskId \in DOMAIN sandbox.taskStore \cup {"task_mock_404"} :
           IF taskId \notin DOMAIN sandbox.taskStore
           THEN last' = Thrown([SandboxCall("GET /v1/tasks") EXCEPT !.taskId = taskId],
                               "404", "", 404)
           ELSE LET createdAt == sandbox.taskStore[taskId]
                    status == LifecycleStatus(ms - createdAt,
                                              SandboxInProgressAfterS * 1000,
                                              SandboxCompletedAfterS * 1000)
                IN  last' = Reported(SandboxCall("GET /v1/tasks"), taskId,
                                     createdAt, status)
    /\ UNCHANGED <<ms, sim, sandbox, notSim>>

\* Time passes, to an instant of the grid or to an instant a pending timer
\* may run at, from MaxTimerEarlyMs before its deadline to MaxTimerLateMs
\* after it: Date.now() does not wait for setTimeout.
SimTick ==
    /\ sim.version # "none" \/ sandbox.listening
    /\ \E t \in SimTimes \cup {sim.timers[i] + late :
                                i \in 1..Len(sim.timers),
                                late \in (0 - MaxTimerEarlyMs)..MaxTimerLateMs} :
           /\ t > ms
           /\ ms' = t
    /\ UNCHANGED <<sim, sandbox, last, notSim>>

\* A client or the sandbox server under a moving clock, with the network's
\* answers and the latency timers.
NextSim ==
    \/ SimConstruct
    \/ SimEnableTestMode
    \/ SimGetTicker
    \/ SimCreateTask
    \/ SimCreateTaskResume
    \/ SimSettle
    \/ SimRequestTask
    \/ SimGetTask
    \/ SandboxListen
    \/ SandboxPostRequest
    \/ SandboxGetTask
    \/ SimTick

SpecSim == Init /\ [][NextSim]_vars

\* ------------------------------------------------------------ TPM bridge
\* A bridge that trusts the device node alone.
IsAvailableDeviceOnly(devicePresent, getcapOk) == devicePresent

\* isAvailable(): the device path exists and tpm2_getcap succeeds.
IsAvailable(devicePresent, getcapOk) ==
    IF ~devicePresent THEN FALSE
    ELSE getcapOk

\* What tpm2_sign writes for an input file: a digest of its bytes stands
\* for the signature the TPM's key gives them.
TpmSignature(content) == <<HashPrefix(content, Len(content)) % 256>>

\* The host program assigns process.env.PROXY_ENV: "" is the variable
\* unset.
TpmSetEnv ==
    /\ \E env \in {"", "development", "production"} \ {tpm.env} :
           tpm' = [tpm EXCEPT !.env = env]
    /\ UNCHANGED notTpm

\* sign(data) is called and runs into isAvailable() up to its first await:
\* fs.existsSync(devicePath) answers, and with the device node there
\* tpm2_getcap is started. Calls are numbered in the order they are made,
\* and the i-th is handed its own buffer, <<222, i>>.
TpmSign ==
    /\ \E i \in Signers, devicePresent \in BOOLEAN :
           /\ tpm.calls[i].pc = "idle"
           /\ \A j \in 1..(i - 1) : tpm.calls[j].pc # "idle"
           /\ tpm' = [tpm EXCEPT
                         !.calls[i] =
                             [NoSign EXCEPT
                                 !.pc = IF devicePresent THEN "tpm2_getcap"
                                        ELSE "isAvailable",
                                 !.data = <<222, i>>,
                                 !.devicePresent = devicePresent]]
    /\ UNCHANGED notTpm

\* await execAsync('tpm2_getcap properties-fixed') ends: the tool succeeded,
\* or failed and the catch block answers false.
TpmGetcap ==
    /\ \E i \in Signers, getcapOk \in BOOLEAN :
           /\ tpm.calls[i].pc = "tpm2_getcap"
           /\ tpm' = [tpm EXCEPT !.calls[i].pc = "isAvailable",
                                 !.calls[i].getcapOk = getcapOk]
    /\ UNCHANGED notTpm

\* finally of call i, run with the files `files` at clock reading t: each
\* temp file that exists is unlinked, input first, and the call settles as
\* c says; an unlinkSync that throws ends the block there, leaves the files
\* not yet removed, and the call rejects with its error.
TpmFinally(i, c, files, t) ==
    LET Unlink(fs, path) == [q \in (DOMAIN fs) \ {path} |-> fs[q]]
        noInput == Unlink(files, c.tmpInput)
        unlinkThrew == [c EXCEPT !.pc = "settled", !.outcome = "thrown",
                                 !.value = <<>>,
                                 !.error = "EPERM: operation not permitted, unlink"]
    IN  \/ tpm' = [tpm EXCEPT !.now = t,
                              !.files = Unlink(noInput, c.tmpOutput),
                              !.calls[i] = [c EXCEPT !.pc = "settled"]]
        \/ /\ c.tmpInput \in DOMAIN files
           /\ tpm' = [tpm EXCEPT !.now = t, !.files = files,
                                 !.calls[i] = unlinkThrew]
        \/ /\ c.tmpOutput \in DOMAIN files
           /\ tpm' = [tpm EXCEPT !.now = t, !.files = noInput,
                                 !.calls[i] = unlinkThrew]

\* sign() goes on after await this.isAvailable(). Without the TPM it reads
\* PROXY_ENV now and returns the mock signature in development or throws
\* PX_400. With it, the two paths are stamped with two readings of
\* Date.now(), the input is written and tpm2_sign is started; a
\* writeFileSync that throws, with or without the file left, goes through
\* catch and finally at once.
TpmCheck ==
    /\ \E i \in Signers :
           /\ tpm.calls[i].pc = "isAvailable"
           /\ LET c == tpm.calls[i]
              IN  IF ~IsAvailable(c.devicePresent, c.getcapOk)
                  THEN tpm' = [tpm EXCEPT
                                  !.calls[i] =
                                      IF tpm.env = "development"
                                      THEN [c EXCEPT
                                               !.pc = "settled", !.env = tpm.env,
                                               !.outcome = "returned",
                                               !.value = MockSignature]
                                      ELSE [c EXCEPT
                                               !.pc = "settled", !.env = tpm.env,
                                               !.outcome = "thrown",
                                               !.error = "PX_400: TPM Hardware not detected or inaccessible."]]
                  ELSE \E tIn \in tpm.now..(tpm.now + MaxClockStepMs) :
                       \E tOut \in tIn..(tpm.now + MaxClockStepMs) :
                           /\ tOut <= MaxStampMs
                           /\ LET paths == [c EXCEPT
                                               !.tmpInput = "/tmp/tpm_sign_in_" \o ToString(tIn) \o ".bin",
                                               !.tmpOutput = "/tmp/tpm_sign_out_" \o ToString(tOut) \o ".sig"]
                                  written == MapSet(tpm.files, paths.tmpInput, c.data)
                                  failed == [paths EXCEPT !.outcome = "thrown",
                                                          !.error = "TPM Signing Failed"]
                              IN  \/ tpm' = [tpm EXCEPT
                                                !.now = tOut, !.files = written,
                                                !.calls[i] =
                                                    [paths EXCEPT
                                                        !.pc = "tpm2_sign",
                                                        !.signed = TRUE]]
                                  \/ TpmFinally(i, failed, tpm.files, tOut)
                                  \/ TpmFinally(i, failed,
                                                MapSet(tpm.files, paths.tmpInput, <<>>), tOut)
    /\ UNCHANGED notTpm

\* The tpm2_sign child process of call i runs to its end: it fails, as it
\* must when its input file is gone, with or without an output file left,
\* or writes a signature to tmpOutput.
TpmExecSign ==
    /\ \E i \in Signers :
           /\ tpm.calls[i].pc = "tpm2_sign"
           /\ LET c == tpm.calls[i]
              IN  \/ tpm' = [tpm EXCEPT !.calls[i].pc = "signed",
                                        !.calls[i].execOk = FALSE]
                  \/ tpm' = [tpm EXCEPT
                                !.files = MapSet(@, c.tmpOutput, <<>>),
                                !.calls[i].pc = "signed",
                                !.calls[i].execOk = FALSE]
                  \/ /\ c.tmpInput \in DOMAIN tpm.files
                     /\ tpm' = [tpm EXCEPT
                                   !.files = MapSet(@, c.tmpOutput,
                                                    TpmSignature(@[c.tmpInput])),
                                   !.calls[i].pc = "signed",
                                   !.calls[i].execOk = TRUE]
    /\ UNCHANGED notTpm

\* sign() goes on after await execAsync(tpm2_sign ...): the output file is
\* read and returned as hex, or the failure of the tool or of readFileSync
\* is rethrown by the catch block; finally runs in either case.
TpmSigned ==
    /\ \E i \in Signers :
           /\ tpm.calls[i].pc = "signed"
           /\ LET c == tpm.calls[i]
                  failed == [c EXCEPT !.outcome = "thrown",
                                      !.error = "TPM Signing Failed"]
              IN  \/ TpmFinally(i, failed, tpm.files, tpm.now)
                  \/ /\ c.execOk
                     /\ c.tmpOutput \in DOMAIN tpm.files
                     /\ TpmFinally(i, [c EXCEPT
                                          !.outcome = "returned",
                                          !.value = HexEncode(tpm.files[c.tmpOutput])],
                                   tpm.files, tpm.now)
    /\ UNCHANGED notTpm

NextTpm ==
    \/ TpmSetEnv
    \/ TpmSign
    \/ TpmGetcap
    \/ TpmCheck
    \/ TpmExecSign
    \/ TpmSigned

SpecTpm == Init /\ [][NextTpm]_vars

\* ------------------------------------------------------------------ claims
Called == call.fn # "none"

\* The tolerance a call is to be judged by: the caller's value where
\* verifySignature was given one, 300 seconds otherwise.
ClaimTolerance(c) ==
    IF c.fn = "verifySignature" /\ c.tolerance # <<>> THEN c.tolerance[1] ELSE 300

\* The call's timestamp parsed and inside the call's window.
Fresh(c) ==
    /\ ~ParseInt(c.timestamp).nan
    /\ Abs(c.at - ParseInt(c.timestamp).val) <= ClaimTolerance(c)

\* The call's signature is the one a sender computes for the call's secret,
\* timestamp and body.
SenderSigned(c) == c.signature = SenderSign(c.secret, c.timestamp, c.rawBody)

\* The raw digest of the call's canonical payload under the call's secret.
DigestOf(c) == Hmac(c.secret, Utf8(c.timestamp \o <<".">> \o c.rawBody))

\* C1 (round trip): a call whose timestamp is a plain decimal integer within
\* tolerance of the clock and whose signature is the lowercase-hex HMAC of
\* the secret over timestamp + "." + body is accepted.
C1_RoundTrip ==
    (/\ Called
     /\ IsPlainDecimal(call.timestamp)
     /\ Abs(call.at - DecValue(call.timestamp)) <= ClaimTolerance(call)
     /\ SenderSigned(call))
        => Accepted(outcome)

C1_Witness ==
    /\ call.fn = "verifySignature"
    /\ call.rawBody # <<>>
    /\ IsPlainDecimal(call.timestamp)
    /\ DecValue(call.timestamp) # call.at
    /\ Abs(call.at - DecValue(call.timestamp)) <= ClaimTolerance(call)
    /\ SenderSigned(call)
    /\ Accepted(outcome)

\* Every character a tampered header or body may carry.
TamperChars == Range(HexLower) \cup Range(HexUpper) \cup Range(Others)
\* The strings that differ from s in exactly one position.
OneCharChanges(s) ==
    {Substitute(s, i, c) : i \in 1..Len(s), c \in TamperChars} \ {s}

\* C2 (tamper sensitivity): from an accepted verifySignature call, changing
\* one byte of the body, one character of the timestamp or one character of
\* the signature, the rest and the clock held fixed, is rejected.
C2_TamperSensitivity ==
    (call.fn = "verifySignature" /\ Accepted(outcome)) =>
        /\ \A b \in OneCharChanges(call.rawBody) :
               ~Accepted(Run([call EXCEPT !.rawBody = b]).out)
        /\ \A t \in OneCharChanges(call.timestamp) :
               ~Accepted(Run([call EXCEPT !.timestamp = t]).out)
        /\ \A sig \in OneCharChanges(call.signature) :
               ~Accepted(Run([call EXCEPT !.signature = sig]).out)

\* C3 (soundness): with a timestamp that passed the freshness check,
\* verifySignature (and security.ts's verifier) accepts exactly when the
\* claimed signature's decoded bytes equal the recomputed digest; no verifier
\* accepts when those bytes differ or when the timestamp is outside the
\* window.
C3_Soundness ==
    Called =>
        /\ (call.fn # "index.verifyProxySignature" /\ Fresh(call))
               => (Accepted(outcome) <=> HexDecode(call.signature) = DigestOf(call))
        /\ Accepted(outcome)
               => (HexDecode(call.signature) = DigestOf(call) /\ Fresh(call))

C3_Witness ==
    /\ call.fn = "verifySignature"
    /\ Fresh(call)
    /\ Len(HexDecode(call.signature)) = DigestBytes
    /\ HexDecode(call.signature)[1] = DigestOf(call)[1]
    /\ HexDecode(call.signature) # DigestOf(call)
    /\ "timingSafeEqual" \in Range(steps)
    /\ ~Accepted(outcome)
\* C4 as claimed (replay protection): a request that was accepted is
\* rejected whenever the identical triple is presented again.
C4_ReplayRejected == replay => ~Accepted(outcome)

\* C4 as amended: the identical triple presented again is accepted exactly
\* while the clock is still within tolerance of its timestamp, and rejected
\* (or thrown out) once it is not.
C4_ReplayAcceptedOnlyInWindow == replay => (Accepted(outcome) <=> Fresh(call))

C4_Witness ==
    /\ replay
    /\ call.at > Epoch
    /\ ~Fresh(call)
    /\ ~Accepted(outcome)

\* C5 (window): a correctly signed request with a plain decimal timestamp T
\* is accepted exactly when |now - T| <= t, where t is 300 unless the caller
\* of verifySignature passed another value; T in the past and T in the
\* future are treated alike.
C5_InclusiveWindow ==
    (Called /\ IsPlainDecimal(call.timestamp) /\ SenderSigned(call)) =>
        (Accepted(outcome) <=>
            /\ DecValue(call.timestamp) - call.at <= ClaimTolerance(call)
            /\ call.at - DecValue(call.timestamp) <= ClaimTolerance(call))

C5_Witness ==
    /\ call.fn = "verifySignature"
    /\ call.tolerance = <<>>
    /\ IsPlainDecimal(call.timestamp)
    /\ SenderSigned(call)
    /\ DecValue(call.timestamp) = call.at + 300
    /\ Accepted(outcome)

\* The whole string is a base-10 integer: an optional sign, then digits only.
IsInteger(t) ==
    LET digits == IF t # <<>> /\ Head(t) \in {"+", "-"} THEN Tail(t) ELSE t
    IN  IsPlainDecimal(digits)

\* C6 (strict parsing): a timestamp string that is not, as a whole, a
\* base-10 integer is rejected, whatever the signature and the body.
C6_StrictTimestamp == (Called /\ ~IsInteger(call.timestamp)) => ~Accepted(outcome)

\* C7 (no exception path): no verifier ends a call by throwing.
C7_NeverThrows == outcome.kind # "throw"

\* The whole string is hexadecimal: an even number of hex digits.
IsHexString(s) == Len(s) % 2 = 0 /\ \A i \in 1..Len(s) : IsHex(s[i])

\* C8 (malformed signature): a signature string that is not entirely valid
\* hexadecimal is rejected.
C8_MalformedSignatureRejected ==
    (Called /\ ~IsHexString(call.signature)) => ~Accepted(outcome)

\* C9 (freshness first): in every call the timestamp is parsed and the
\* window checked before any HMAC is computed, and a call whose timestamp is
\* malformed or outside the window ends without an HMAC and without the
\* comparison.
C9_FreshnessBeforeHmac ==
    Called =>
        /\ steps # <<>> /\ steps[1] = "parseInt"
        /\ \A i \in 1..Len(steps) :
               steps[i] \in {"hmac", "decode", "timingSafeEqual"} =>
                   /\ i > 2
                   /\ steps[2] = "window"
                   /\ Fresh(call)
        /\ ~Fresh(call) => Range(steps) \subseteq {"parseInt", "window"}

C9_Witness ==
    /\ Called
    /\ call.rawBody # <<>>
    /\ SenderSigned(call)
    /\ ~ParseInt(call.timestamp).nan
    /\ ~Fresh(call)
    /\ steps = <<"parseInt", "window">>

\* C10 (distinguishable failures): what verifySignature hands back for a
\* malformed timestamp differs from what it hands back for a numeric
\* timestamp outside the window.
C10_DistinguishableFailures ==
    (call.fn = "verifySignature" /\ ParseInt(call.timestamp).nan) =>
        \A t \in PlainTimestamps :
            ~Fresh([call EXCEPT !.timestamp = t]) =>
                Run([call EXCEPT !.timestamp = t]).out # outcome
\* The two buffers a call hands to the length test and the comparison.
ClaimedBuffer(c) ==
    IF c.fn = "index.verifyProxySignature" THEN Utf8(c.signature)
    ELSE HexDecode(c.signature)
ComputedBuffer(c) ==
    IF c.fn = "index.verifyProxySignature" THEN Utf8(HexEncode(DigestOf(c)))
    ELSE DigestOf(c)

\* C11 (length-mismatch safety): timingSafeEqual only ever gets two buffers
\* of equal length and never raises its RangeError; with a fresh timestamp a
\* length mismatch ends the call with false before the comparison, and a
\* signature one character shorter than the encoded digest is never
\* accepted, for every body and timestamp.
C11_LengthMismatchSafe ==
    Called =>
        /\ outcome.error # "RangeError"
        /\ "timingSafeEqual" \in Range(steps)
               => Len(ClaimedBuffer(call)) = Len(ComputedBuffer(call))
        /\ (Fresh(call) /\ Len(ClaimedBuffer(call)) # Len(ComputedBuffer(call)))
               => (outcome = Return(FALSE) /\ "timingSafeEqual" \notin Range(steps))
        /\ Len(call.signature) = 2 * DigestBytes - 1
               => (~Accepted(outcome) /\ (Fresh(call) => outcome = Return(FALSE)))

C11_Witness ==
    /\ call.fn = "verifySignature"
    /\ call.rawBody # <<>>
    /\ Fresh(call)
    /\ call.signature = SubSeq(SenderSign(call.secret, call.timestamp, call.rawBody),
                               1, 2 * DigestBytes - 1)
    /\ outcome = Return(FALSE)
    /\ steps = <<"parseInt", "window", "hmac", "decode">>

\* The timestamp strings other than t that parseInt reads as the same
\* integer as t.
SameIntegerAs(t) ==
    {u \in Timestamps : u # t /\ ~ParseInt(u).nan /\ ParseInt(u) = ParseInt(t)}

\* C12 (timestamp as received): the signed payload is the timestamp string
\* as received, one ".", then the body; two timestamp strings that parse to
\* the same integer but differ as text give different payloads, and a
\* signature made over one is rejected when presented with the other.
C12_TimestampAsReceived ==
    (Called /\ SenderSigned(call) /\ Accepted(outcome)) =>
        \A u \in SameIntegerAs(call.timestamp) :
            /\ PayloadBuffer(u, call.rawBody) # PayloadBuffer(call.timestamp, call.rawBody)
            /\ PayloadString(u, call.rawBody) # PayloadString(call.timestamp, call.rawBody)
            /\ PayloadBuffer(u, call.rawBody) = Utf8(u) \o Utf8(<<".">>) \o Utf8(call.rawBody)
            /\ ~Accepted(Run([call EXCEPT !.timestamp = u]).out)

C12_Witness ==
    /\ call.fn = "verifySignature"
    /\ call.timestamp = <<"0">> \o Dec(call.at)
    /\ call.rawBody # <<>>
    /\ SenderSigned(call)
    /\ Accepted(outcome)
    /\ Dec(call.at) \in SameIntegerAs(call.timestamp)

\* C13 (security.ts): verifyProxySignature throws exactly when the timestamp
\* does not parse as an integer or is more than 300 seconds from the clock;
\* otherwise it returns a boolean, true exactly when the signature's bytes
\* are the digest's.
C13_SecurityThrowsOnTimestampOnly ==
    call.fn = "security.verifyProxySignature" =>
        /\ outcome.kind = "throw" <=>
               (ParseInt(call.timestamp).nan
                    \/ Abs(call.at - ParseInt(call.timestamp).val) > 300)
        /\ outcome.kind # "throw" =>
               /\ outcome.kind = "return"
               /\ outcome.value <=> HexDecode(call.signature) = DigestOf(call)

C13_Witness ==
    /\ call.fn = "security.verifyProxySignature"
    /\ ~ParseInt(call.timestamp).nan
    /\ call.at - ParseInt(call.timestamp).val = 301
    /\ SenderSigned(call)
    /\ outcome.kind = "throw"
\* C15 (never cached): a request that was accepted at some instant is
\* rejected by every call made when now > T + tolerance (as with T = now - 600
\* and tolerance 300), and a request that is stale at one call is not
\* accepted by a call at any later clock reading.
C15_NeverCached ==
    (Called /\ ~ParseInt(call.timestamp).nan
            /\ call.at > ParseInt(call.timestamp).val + ClaimTolerance(call)) =>
        /\ ~Accepted(outcome)
        /\ call.fn = "verifySignature" => outcome = Return(FALSE)
        /\ \A c \in ClockValues :
               c >= call.at => ~Accepted(Run([call EXCEPT !.at = c]).out)

C15_Witness ==
    /\ replay
    /\ call.fn = "verifySignature"
    /\ call.tolerance = <<>>
    /\ IsPlainDecimal(call.timestamp)
    /\ DecValue(call.timestamp) = call.at - 600
    /\ SenderSigned(call)
    /\ outcome = Return(FALSE)

PollCalled == poll.pc # "idle"
PollSettled == poll.pc \in {"returned", "thrown"}

\* C16 as stated: the wait between two consecutive getTask calls, the
\* exponential delay plus the jitter that setTimeout is given, never exceeds
\* 30000 ms.
C16_WaitAtMost30s ==
    poll.pc = "setTimeout" => poll.delay <= 30000

\* C16 (backoff cap): for every attempt and every baseDelayMs the exponential
\* part of the delay never exceeds 30000 ms, and the delay setTimeout is
\* given, which adds up to 1000 ms of jitter on top, never exceeds 31000 ms.
C16_BackoffCapped ==
    poll.pc = "setTimeout" =>
        /\ poll.exponentialDelay <= 30000
        /\ poll.exponentialDelay <= poll.baseDelayMs * Pow2(poll.attempt)
        /\ poll.delay >= poll.exponentialDelay
        /\ poll.delay <= 30000 + 1000

C16_Witness ==
    /\ poll.pc = "setTimeout"
    /\ poll.baseDelayMs = 1000
    /\ poll.baseDelayMs * Pow2(poll.attempt) > 30000
    /\ poll.exponentialDelay = 30000
    /\ poll.delay = 31000

\* C19 (poll outcome): pollUntilComplete returns a task only when its status
\* is completed or failed, at the first poll that observes such a status;
\* the timeout error is thrown only when no poll observed one; and as long
\* as getTask returns, every call ends in one of these two ways.
C19_PollOutcome ==
    /\ [](/\ poll.pc = "returned" =>
                /\ poll.result \in {"completed", "failed"}
                /\ poll.result = poll.latest
                /\ poll.earlier \cap {"completed", "failed"} = {}
          /\ (poll.error # "ProxyProtocol Error"
                  /\ poll.latest \in {"completed", "failed"})
                 => poll.pc = "returned"
          /\ (poll.pc = "thrown" /\ poll.error # "ProxyProtocol Error") =>
                /\ poll.error = "Polling timed out"
                /\ (poll.earlier \cup {poll.latest}) \cap {"completed", "failed"} = {}
                /\ ms - poll.startTime >= poll.timeoutMs)
    /\ (PollCalled ~> PollSettled)

C19_Witness ==
    /\ poll.pc = "returned"
    /\ poll.result = "failed"
    /\ poll.attempt >= 2
    /\ poll.earlier = {"matching", "in_progress"}

\* C20 as stated: a pollUntilComplete call settles no later than timeoutMs
\* milliseconds after it was called, the backoff waits counted.
C20_SettlesWithinTimeout ==
    (PollSettled /\ poll.error # "ProxyProtocol Error") =>
        poll.settledAt - poll.startTime <= poll.timeoutMs

\* The typed subclasses of ProxyError that errors.ts declares.
TypedErrors ==
    {"AuthenticationError", "PaymentRequiredError", "RateLimitError",
     "InvalidRequestError", "SecurityError", "ServerError"}

\* C17 (classification by code): whatever the HTTP status, mapError returns
\* AuthenticationError for PX_100, PaymentRequiredError for PX_200,
\* SecurityError for PX_400 and RateLimitError for PX_500; a code of one of
\* the switch's groups gets the same class under every status, the status
\* decides only for the other codes, and the result is always one of the
\* typed subclasses.
C17_ClassifiedByCode ==
    raised.via = "mapError" =>
        /\ raised.code = "PX_100" => raised.class = "AuthenticationError"
        /\ raised.code = "PX_200" => raised.class = "PaymentRequiredError"
        /\ raised.code = "PX_400" => raised.class = "SecurityError"
        /\ raised.code = "PX_500" => raised.class = "RateLimitError"
        /\ raised.code \in {"PX_100", "PX_101", "PX_102", "PX_103", "PX_200", "PX_202",
                            "PX_203", "PX_400", "PX_401", "PX_402", "PX_403",
                            "PX_500", "PX_501", "PX_502"}
               => \A st \in Statuses : MapError(raised.code, st) = raised.class
        /\ raised.class \in TypedErrors

C17_Witness ==
    /\ raised.via = "mapError"
    /\ raised.code = "PX_500"
    /\ raised.status = 401
    /\ raised.class = "RateLimitError"

\* C18 as stated: a task-creation failure carrying PX_200 reaches the caller
\* as PaymentRequiredError and one carrying PX_500 as RateLimitError, on the
\* simulated path and on the HTTP-interceptor path.
C18_CreationErrorsFollowTable ==
    (last.op \in {"createTask", "requestTask"} /\ last.outcome = "thrown") =>
        /\ last.code = "PX_200" => last.class = "PaymentRequiredError"
        /\ last.code = "PX_500" => last.class = "RateLimitError"

\* What the call of frame f returns when it runs alone at the clock reading
\* it took.
Alone(f) ==
    VerifySignature(f.rawBody, f.signature, f.timestamp, f.secret, <<>>, f.now).out

\* C14 (no shared state): however the steps of concurrent verifySignature
\* calls interleave, a finished call has returned what the same call returns
\* alone at the clock reading it took, its arguments and locals hold what
\* the call itself put there, and a step of one call changes nothing of
\* another call nor the clock.
C14_NoSharedState ==
    /\ [](\A i \in Callers :
             /\ frames[i].pc = "done" => frames[i].result = Alone(frames[i])
             /\ frames[i].pc \in {"decode", "compare"} =>
                    frames[i].computedSignature =
                        HexEncode(Hmac(frames[i].secret,
                                       Utf8(frames[i].timestamp \o <<".">>
                                                \o frames[i].rawBody))))
    /\ [][/\ \A i, j \in Callers :
                (frames'[i] # frames[i] /\ j # i) => frames'[j] = frames[j]
          /\ frames' # frames => now' = now]_vars

C14_Witness ==
    \E i, j \in Callers :
        /\ frames[i].pc = "done"
        /\ frames[i].result = Return(TRUE)
        /\ frames[j].pc = "compare"
        /\ frames[j].now < frames[i].now
        /\ frames[j].timestamp # frames[i].timestamp
        /\ frames[j].rawBody # frames[i].rawBody

\* C27 as stated: at the same clock reading, verifySignature with the default
\* tolerance and verifyProxySignature of index.ts return the same boolean for
\* the same body, signature, timestamp and secret.
C27_VariantsAgree ==
    (Called /\ call.fn \in {"verifySignature", "index.verifyProxySignature"}) =>
        VerifySignature(call.rawBody, call.signature, call.timestamp, call.secret,
                        <<>>, call.at).out
            = IndexVerifyProxySignature(call.rawBody, call.signature, call.timestamp,
                                        call.secret, call.at).out

\* The bonuses of a call, each worked out from the call's arguments.
BonusSum(r) ==
    (IF r.result.actualDurationMinutes < r.result.slaDurationMinutes
        /\ (r.result.slaDurationMinutes - r.result.actualDurationMinutes)
               * r.config.speedRatePerMinute > 0
     THEN (r.result.slaDurationMinutes - r.result.actualDurationMinutes)
              * r.config.speedRatePerMinute
     ELSE 0)
    + (IF r.result.intuitionOverride
       THEN (r.baseFeeSats * r.config.intuitionMultiplier) \div 100 ELSE 0)
    + (IF r.result.qualityScore > 5
       THEN (r.result.qualityScore - 5) * r.config.qualityMultiplier ELSE 0)

\* C21 (tip cap): calculateRewards returns a totalTip of at most
\* min(config.maxTipAllowance, baseFeeSats), and a totalTip equal to the sum
\* of the speed, intuition and quality bonuses when that sum is at or below
\* the cap.
C21_TipCapped ==
    reward.called =>
        /\ reward.totalTip <= reward.config.maxTipAllowance
        /\ reward.totalTip <= reward.baseFeeSats
        /\ (BonusSum(reward) <= reward.config.maxTipAllowance
                /\ BonusSum(reward) <= reward.baseFeeSats)
               => reward.totalTip = BonusSum(reward)

C21_Witness ==
    /\ reward.called
    /\ reward.config.maxTipAllowance > reward.baseFeeSats
    /\ reward.baseFeeSats > 0
    /\ BonusSum(reward) > reward.baseFeeSats
    /\ reward.totalTip = reward.baseFeeSats
    /\ "BUDGET_CAP_ENFORCED" \in DOMAIN reward.breakdown

\* The place of a status in the lifecycle; 0 for no status.
Rank(status) ==
    IF status = "matching" THEN 1
    ELSE IF status = "in_progress" THEN 2
    ELSE IF status = "completed" THEN 3
    ELSE 0

\* The latest call was answered with the status of a mock task by the 1.3.0
\* client in test mode or by the sandbox server.
LifecycleAnswer ==
    /\ last.outcome = "resolved"
    /\ \/ last.op \in {"createTask", "getTask"} /\ last.version = "1.3.0" /\ last.testMode
       \/ last.op \in {"POST /v1/request", "GET /v1/tasks"}

\* C22 (mock lifecycle): under a non-decreasing clock a status reported for a
\* mock task is never earlier in the order matching, in_progress, completed
\* than the status reported just before; the 1.3.0 client in test mode
\* (thresholds 2000 ms and 5000 ms) and the sandbox (5000 ms and 15000 ms)
\* report matching up to and including the first threshold, completed
\* strictly after the second, and a result exactly with completed.
C22_LifecycleMonotone ==
    /\ (last.outcome = "resolved" /\ last.status # "")
           => Rank(last.prev) <= Rank(last.status)
    /\ LifecycleAnswer =>
           LET elapsed == last.at - last.createdAt
               first == IF last.version = "sandbox" THEN 5000 ELSE 2000
               second == IF last.version = "sandbox" THEN 15000 ELSE 5000
           IN  /\ last.status \in {"matching", "in_progress", "completed"}
               /\ last.status = "matching" <=> elapsed <= first
               /\ last.status = "completed" <=> elapsed > second
               /\ last.hasResult <=> last.status = "completed"

C22_Witness ==
    /\ last.op = "GET /v1/tasks"
    /\ last.createdAt = 0
    /\ last.at = 15001
    /\ last.prev = "in_progress"
    /\ last.status = "completed"
    /\ last.hasResult

\* The requirements break the schema of the task type: a required field is
\* missing, an enum field holds a value outside its set, or a pattern field
\* holds a value that does not match.
ViolatesSchema(taskType, requirements) ==
    LET schema == RequirementSchema(taskType)
    IN  /\ HasSchema(taskType)
        /\ \/ \E i \in 1..Len(schema.required) :
                  schema.required[i] \notin DOMAIN requirements
           \/ \E f \in DOMAIN schema.enums \cap DOMAIN requirements :
                  requirements[f] \notin schema.enums[f]
           \/ \E f \in DOMAIN schema.patterns \cap DOMAIN requirements :
                  ~PatternTest(schema.patterns[f], requirements[f])

\* C23 as stated: a requestTask call whose requirements break the schema of
\* its task type throws InvalidRequestError PX_302, sends no POST, stores no
\* mock task and leaves the requirements as they were passed.
C23_ValidationFirst ==
    (last.op = "requestTask" /\ ViolatesSchema(last.taskType, last.requirements)) =>
        /\ last.outcome = "thrown"
        /\ last.class = "InvalidRequestError"
        /\ last.code = "PX_302"
        /\ ~last.http
        /\ ~last.stored
        /\ last.requirementsAfter = last.requirements

\* C24 (test mode intercepts): a getTicker, createTask, requestTask or getTask
\* call made on a client in test mode sends no HTTP request, whatever the
\* scenario and the calls before, requests sent before enableTestMode and
\* answered after it included: no step of a client in test mode adds a
\* request to those in flight, and no step takes the client out of test
\* mode.
C24_TestModeIntercepts ==
    /\ []((last.op \in {"getTicker", "createTask", "requestTask", "getTask"}
               /\ last.testMode) => ~last.http)
    /\ [][sim.isTestMode =>
             /\ sim'.isTestMode
             /\ \A op \in ClientOps : sim'.awaiting[op] <= sim.awaiting[op]]_vars

\* A getTicker answered in test mode without a request, after a mock task
\* was created, while a createTask sent before enableTestMode still waits
\* for its answer.
C24_Witness ==
    /\ sim.isTestMode
    /\ sim.activeScenario = "INSUFFICIENT_FUNDS"
    /\ sim.created = 1
    /\ sim.awaiting["createTask"] = 1
    /\ last.op = "getTicker"
    /\ last.testMode
    /\ last.outcome = "resolved"
    /\ ~last.http

\* C28 as stated: every simulated creation yields an id no earlier creation
\* got, so each store holds one entry per created task, two creations within
\* one millisecond included.
C28_IdsUnique ==
    /\ Cardinality(DOMAIN sim.mockTaskStore) = sim.created
    /\ Cardinality(DOMAIN sandbox.taskStore) = sandbox.created

\* The sign() calls that got into the try block: their temp paths are set.
Signing == {i \in Signers : tpm.calls[i].tmpInput # ""}

\* C25 as stated (secure cleanup): once a sign() call that reached the
\* signing step has settled, with the signature, after a failed tpm2_sign,
\* or after a failed write or read, neither its temp input file nor its temp
\* output file exists.
C25_TempFilesRemoved ==
    \A i \in Signing :
        tpm.calls[i].pc = "settled" =>
            /\ tpm.calls[i].tmpInput \notin DOMAIN tpm.files
            /\ tpm.calls[i].tmpOutput \notin DOMAIN tpm.files

\* The availability check of call i has answered false.
Unavailable(i) ==
    /\ tpm.calls[i].pc \notin {"idle", "tpm2_getcap"}
    /\ ~(tpm.calls[i].devicePresent /\ tpm.calls[i].getcapOk)

\* C26 (no signing without the TPM): when the device path is missing or the
\* capability check fails, sign() never runs tpm2_sign and never creates a
\* temp file: it makes no temp path, and while no call's check has passed
\* no temp file exists. It settles with the fixed mock signature when
\* PROXY_ENV, read once the check has answered, is development and with the
\* PX_400 error otherwise; and only a call whose availability check passed
\* returns a signature read from tpm2_sign's output.
C26_NoSigningWithoutTpm ==
    /\ (\A i \in Signers : ~(tpm.calls[i].devicePresent /\ tpm.calls[i].getcapOk))
           => tpm.files = EmptyMap
    /\ \A i \in Signers :
        LET c == tpm.calls[i]
        IN  /\ Unavailable(i) =>
                   /\ ~c.signed
                   /\ c.tmpInput = "" /\ c.tmpOutput = ""
                   /\ c.pc \in {"isAvailable", "settled"}
                   /\ c.pc = "settled" =>
                          IF c.env = "development"
                          THEN /\ c.outcome = "returned"
                               /\ c.value = MockSignature
                          ELSE /\ c.outcome = "thrown"
                               /\ c.error = "PX_400: TPM Hardware not detected or inaccessible."
            /\ (c.outcome = "returned" /\ c.value # MockSignature) =>
                   /\ c.devicePresent /\ c.getcapOk
                   /\ c.signed /\ c.execOk
            /\ (c.outcome = "returned" /\ c.value = MockSignature) =>
                   Unavailable(i) /\ c.env = "development"

\* Two calls without the TPM that read PROXY_ENV at different moments: the
\* first, whose tpm2_getcap failed, found production and threw; the second
\* found development and got the mock signature.
C26_Witness ==
    /\ tpm.calls[1].pc = "settled"
    /\ tpm.calls[1].devicePresent
    /\ ~tpm.calls[1].getcapOk
    /\ tpm.calls[1].env = "production"
    /\ tpm.calls[1].outcome = "thrown"
    /\ ~tpm.calls[1].signed
    /\ tpm.calls[2].pc = "settled"
    /\ ~tpm.calls[2].devicePresent
    /\ tpm.calls[2].env = "development"
    /\ tpm.calls[2].outcome = "returned"
    /\ tpm.files = EmptyMap

=============================================================================
